---- MODULE Spec2Model ----
(***************************************************************************)
(* Floating menu plugin: decoration reconciliation (plugin state           *)
(* init/apply, getDecorations), slice cache manager (createSliceManager)   *)
(* and clipboard codec (copySelectionRich, pasteFromClipboard).            *)
(*                                                                         *)
(* A document is the flat token sequence of the editor's position model:   *)
(* every node opening, node closing and text character is one token, so    *)
(* the editor position p is the gap after the first p tokens.              *)
(***************************************************************************)
EXTENDS Integers, Sequences, FiniteSets, TLC

\* ---------------------------------------------------------------- bounds
MaxDocLen == 4
MaxSteps == 2
MaxCache == 3

\* ------------------------------------------------------------ attributes
\* The isDeco attribute: null (present = FALSE) or a record of flags, each
\* "true", "false", or "absent" when the record has no such key.
NullDeco == [present |-> FALSE, isSlice |-> "absent", isTag |-> "absent", isComment |-> "absent"]

Deco(s, t, c) == [present |-> TRUE, isSlice |-> s, isTag |-> t, isComment |-> c]

\* JS truthiness of a flag value
Truthy(f) == f = "true"

\* objectId values of nodes: an identity, or null
NullId == "null"

\* ---------------------------------------------------------------- tokens
Open(type, oid, deco) == [k |-> "open", type |-> type, objectId |-> oid, isDeco |-> deco, c |-> ""]

Close == [k |-> "close", type |-> "", objectId |-> NullId, isDeco |-> NullDeco, c |-> ""]

Char(ch) == [k |-> "char", type |-> "text", objectId |-> NullId, isDeco |-> NullDeco, c |-> ch]

TextBlockTypes == {"paragraph", "heading"}

IsOpen(t) == t.k = "open"

IsClose(t) == t.k = "close"

IsChar(t) == t.k = "char"

\* Sequence helpers
Take(s, n) == SubSeq(s, 1, n)

Drop(s, n) == SubSeq(s, n + 1, Len(s))

Chars(s) == [i \in 1..Len(s) |-> Char(s[i])]

\* The stack of open node types after the first n tokens of d
\* (<<>> at top level); <<"!">> marks a malformed prefix.
RECURSIVE StackAt(_, _)
StackAt(d, n) ==
  IF n = 0 THEN <<>>
  ELSE LET st == StackAt(d, n - 1)
           t == d[n]
       IN IF st # <<>> /\ st[Len(st)] = "!" THEN st
          ELSE IF IsOpen(t) THEN
                 IF st = <<>> \/ st[Len(st)] = "blockquote" THEN Append(st, t.type) ELSE <<"!">>
          ELSE IF IsChar(t) THEN
                 IF st # <<>> /\ st[Len(st)] \in TextBlockTypes THEN st ELSE <<"!">>
          ELSE IF st = <<>> THEN <<"!">>
          ELSE IF st[Len(st)] = "blockquote" /\ IsOpen(d[n - 1]) THEN <<"!">>
          ELSE Take(st, Len(st) - 1)

\* A document the schema accepts: doc(block+), blockquote(block+),
\* paragraph(text*), heading(text*).
WellFormed(d) == Len(d) > 0 /\ StackAt(d, Len(d)) = <<>>

DepthAt(d, p) == Len(StackAt(d, p))

\* Positions inside a textblock (where a text cursor can be)
TextPositions(d) == {p \in 0..Len(d) : LET st == StackAt(d, p) IN st # <<>> /\ st[Len(st)] \in TextBlockTypes}

\* Index of the open token of the depth-1 node containing position p
RECURSIVE BlockStart(_, _)
BlockStart(d, p) == IF DepthAt(d, p - 1) = 0 THEN p ELSE BlockStart(d, p - 1)

\* Index of the close token matching the open token at index i
RECURSIVE MatchClose(_, _, _)
MatchClose(d, i, j) == IF DepthAt(d, j) = DepthAt(d, i - 1) THEN j ELSE MatchClose(d, i, j + 1)

NodeEnd(d, i) == MatchClose(d, i, i + 1)

\* ------------------------------------------------------------ decorations
\* (variant: the tag glyph appended before the slice glyph)
Glyphs_TagFirst(flags) ==
  (IF Truthy(flags.isTag) THEN <<"tag">> ELSE <<>>)
  \o (IF Truthy(flags.isSlice) THEN <<"slice">> ELSE <<>>)
  \o (IF Truthy(flags.isComment) THEN <<"comment">> ELSE <<>>)

\* One glyph per true flag, in the order slice, tag, comment.
Glyphs(flags) ==
  (IF Truthy(flags.isSlice) THEN <<"slice">> ELSE <<>>)
  \o (IF Truthy(flags.isTag) THEN <<"tag">> ELSE <<>>)
  \o (IF Truthy(flags.isComment) THEN <<"comment">> ELSE <<>>)

\* (variant: the widget placed at pos, before the paragraph's opening)
Hamburger_AtPos(pos) == [pos |-> pos, side |-> 1, kind |-> "hamburger", dataPos |-> pos, glyphs |-> <<>>]

\* Decoration.widget(pos + 1, wrapper, {side: 1}) with dataset.pos = pos
Hamburger(pos) == [pos |-> pos + 1, side |-> 1, kind |-> "hamburger", dataPos |-> pos, glyphs |-> <<>>]

\* Decoration.widget(pos + 1, container, {side: -1})
Cluster(pos, flags) == [pos |-> pos + 1, side |-> -1, kind |-> "cluster", dataPos |-> -1, glyphs |-> Glyphs(flags)]

\* The decorations one child of the document contributes
NodeDecorations(node, pos) ==
  IF node.type # "paragraph" THEN <<>>
  ELSE <<Hamburger(pos)>>
       \o (IF ~node.isDeco.present THEN <<>>
           ELSE IF Truthy(node.isDeco.isSlice) \/ Truthy(node.isDeco.isTag) \/ Truthy(node.isDeco.isComment)
                THEN <<Cluster(pos, node.isDeco)>>
                ELSE <<>>)

\* doc.forEach: the direct children of the document, in order, from token i on
RECURSIVE ScanChildren(_, _)
ScanChildren(d, i) ==
  IF i > Len(d) THEN <<>>
  ELSE NodeDecorations(d[i], i - 1) \o ScanChildren(d, NodeEnd(d, i) + 1)

\* The empty DecorationSet (DecorationSet.create returns it for an empty list)
EmptyDecorationSet == <<>>

\* getDecorations(doc, state): a DecorationSet is modelled as the list of its
\* decorations in the order they were pushed.
getDecorations(d) == ScanChildren(d, 1)

\* decos.map(callback): DecorationSet.map expects a Mapping; it returns the
\* set itself when the set is the empty set, and otherwise reads
\* mapping.maps.length, which throws a TypeError for a callback.
DecorationSetMap(decos) ==
  IF decos = EmptyDecorationSet THEN [threw |-> FALSE, val |-> decos]
  ELSE [threw |-> TRUE, val |-> decos]

\* ----------------------------------------------------------------- steps
\* A step as step.toJSON() and step.getMap() show it.  stepType is the
\* jsonID of the step class: "replace" (ReplaceStep), "replaceAround"
\* (ReplaceAroundStep; tr.setNodeMarkup, wrap and lift produce it), "attr"
\* (AttrStep, tr.setNodeAttribute), "addMark", "removeMark".
ReplaceStep(from, to, ins) ==
  [stepType |-> "replace", from |-> from, to |-> to, gapFrom |-> to, gapTo |-> to,
   pre |-> ins, post |-> <<>>, value |-> NullDeco]

ReplaceAroundStep(from, to, gapFrom, gapTo, pre, post) ==
  [stepType |-> "replaceAround", from |-> from, to |-> to, gapFrom |-> gapFrom, gapTo |-> gapTo,
   pre |-> pre, post |-> post, value |-> NullDeco]

AttrStep(pos, value) ==
  [stepType |-> "attr", from |-> pos, to |-> pos, gapFrom |-> pos, gapTo |-> pos,
   pre |-> <<>>, post |-> <<>>, value |-> value]

MarkStep(type, from, to) ==
  [stepType |-> type, from |-> from, to |-> to, gapFrom |-> to, gapTo |-> to,
   pre |-> <<>>, post |-> <<>>, value |-> NullDeco]

\* tr.setNodeMarkup(pos, type, attrs) on a node with content: a
\* ReplaceAroundStep that keeps the content and replaces the node's shell.
SetNodeMarkupStep(d, pos, type, oid, deco) ==
  LET e == NodeEnd(d, pos + 1)
  IN ReplaceAroundStep(pos, e, pos + 1, e - 1, <<Open(type, oid, deco)>>, <<Close>>)

\* step.apply(doc)
StepApply(d, st) ==
  IF st.stepType \in {"replace", "replaceAround"}
  THEN Take(d, st.from) \o st.pre \o SubSeq(d, st.gapFrom + 1, st.gapTo) \o st.post \o Drop(d, st.to)
  ELSE IF st.stepType = "attr"
  THEN [d EXCEPT ![st.from + 1] = [@ EXCEPT !.isDeco = st.value]]
  ELSE d

\* step.getMap(): the replaced ranges <<start, oldSize, newSize>>
StepMap(st) ==
  IF st.stepType = "replace"
  THEN (IF st.from = st.to /\ st.pre = <<>> THEN <<>> ELSE << <<st.from, st.to - st.from, Len(st.pre)>> >>)
  ELSE IF st.stepType = "replaceAround"
  THEN << <<st.from, st.gapFrom - st.from, Len(st.pre)>>, <<st.gapTo, st.to - st.gapTo, Len(st.post)>> >>
  ELSE <<>>

\* StepMap.map(pos, assoc)
RECURSIVE MapRanges(_, _, _, _, _)
MapRanges(pos, assoc, ranges, i, diff) ==
  IF i > Len(ranges) THEN pos + diff
  ELSE LET start == ranges[i][1]
           oldSize == ranges[i][2]
           newSize == ranges[i][3]
           end == start + oldSize
       IN IF start > pos THEN pos + diff
          ELSE IF pos <= end
               THEN LET side == IF oldSize = 0 THEN assoc
                                ELSE IF pos = start THEN -1
                                ELSE IF pos = end THEN 1 ELSE assoc
                    IN start + diff + (IF side < 0 THEN 0 ELSE newSize)
               ELSE MapRanges(pos, assoc, ranges, i + 1, diff + newSize - oldSize)

\* Mapping.map(pos, assoc) through the maps of a sequence of steps
RECURSIVE MapThrough(_, _, _)
MapThrough(pos, assoc, steps) ==
  IF steps = <<>> THEN pos
  ELSE MapThrough(MapRanges(pos, assoc, StepMap(Head(steps)), 1, 0), assoc, Tail(steps))

\* The document after the steps, each applied to the result of the previous
RECURSIVE StepsApply(_, _)
StepsApply(d, steps) == IF steps = <<>> THEN d ELSE StepsApply(StepApply(d, Head(steps)), Tail(steps))

Min(S) == CHOOSE x \in S : \A y \in S : x <= y

Max(S) == CHOOSE x \in S : \A y \in S : x >= y

\* Index of the open token of the innermost node containing position p
InnerStart(d, p) == Max({i \in 1..p : IsOpen(d[i]) /\ NodeEnd(d, i) > p})

\* Selection.near($pos): the nearest text position, searching forward first
Near(d, p) ==
  LET fwd == {q \in TextPositions(d) : q >= p}
      bwd == {q \in TextPositions(d) : q <= p}
  IN IF fwd # {} THEN Min(fwd) ELSE Max(bwd)

\* TextSelection.map(doc, mapping); a selection is [from, to]
SelectionMap(s, d, steps) ==
  LET head == MapThrough(s.to, 1, steps)
      anchor == MapThrough(s.from, 1, steps)
  IN IF head \notin TextPositions(d) THEN [from |-> Near(d, head), to |-> Near(d, head)]
     ELSE IF anchor \notin TextPositions(d) THEN [from |-> head, to |-> head]
     ELSE [from |-> IF anchor <= head THEN anchor ELSE head, to |-> IF anchor <= head THEN head ELSE anchor]

\* ----------------------------------------------------------- slice cache
\* A SliceModel, as far as the slice manager reads it: id, source, from
SliceModel(id, source, from) == [id |-> id, source |-> source, from |-> from]

\* (variant: the filtered candidates replace the cache)
setSlices_Replace(slices, objectId, cache) ==
  SelectSeq(slices, LAMBDA slice : slice.source = objectId)

\* setSlices(slices, state): the cache after the call; objectId is
\* state.doc.attrs.objectId
setSlices(slices, objectId, cache) ==
  cache \o SelectSeq(slices, LAMBDA slice : slice.source = objectId)

\* (variant: the slice is put in front)
addSliceToList_Unshift(slice, cache) == <<slice>> \o cache

\* addSliceToList(slice): the cache after the push
addSliceToList(slice, cache) == Append(cache, slice)

\* docSlices = [...]: the cache is a new array, and a list that was the
\* cache's array keeps the elements of before
Reassigned(list, cache) == IF list.array = "cache" THEN [array |-> "former", list |-> cache] ELSE list

\* (variant: isDeco rebuilt with the isSlice flag alone)
SliceAttrs_FreshDeco(node) == Deco("true", "absent", "absent")

\* The isDeco of newattrs in setSliceAttrs: {...(attrs.isDeco || {})} with
\* isSlice = true
SliceAttrs(node) == [node.isDeco EXCEPT !.present = TRUE, !.isSlice = "true"]

\* doc.descendants for one cached slice obj: a setNodeMarkup step for each
\* node, from token i on, whose objectId is obj.from
RECURSIVE MatchSteps(_, _, _)
MatchSteps(d, obj, i) ==
  IF i > Len(d) THEN <<>>
  ELSE (IF IsOpen(d[i]) /\ d[i].objectId = obj.from
        THEN <<SetNodeMarkupStep(d, i - 1, d[i].type, d[i].objectId, SliceAttrs(d[i]))>>
        ELSE <<>>)
       \o MatchSteps(d, obj, i + 1)

\* result.forEach: the steps of the transaction setSliceAttrs builds
RECURSIVE setSliceAttrsSteps(_, _)
setSliceAttrsSteps(d, cache) ==
  IF cache = <<>> THEN <<>>
  ELSE MatchSteps(d, Head(cache), 1) \o setSliceAttrsSteps(d, Tail(cache))

\* ------------------------------------------------------------ JSON text
\* A text is a sequence of chunks.  A chunk is one character, or a run of
\* characters that holds no quote and no backslash and is not split further
\* (a key, a literal, a URL); positions inside a run are not modelled.
QUOTE == "\""

BSLASH == "\\"

Digits == <<"0", "1", "2", "3", "4", "5", "6", "7", "8", "9">>

IsDigit(c) == \E i \in 1..Len(Digits) : Digits[i] = c

DigitVal(c) == (CHOOSE i \in 1..Len(Digits) : Digits[i] = c) - 1

IsSpace(c) == c \in {" ", "\n"}

\* JavaScript values that JSON texts denote, and undefined
JVal(t, b, n, str, a, k) == [t |-> t, b |-> b, n |-> n, s |-> str, a |-> a, k |-> k]

JUndefined == JVal("undefined", FALSE, 0, <<>>, <<>>, <<>>)

JNull == JVal("null", FALSE, 0, <<>>, <<>>, <<>>)

JBool(b) == JVal("boolean", b, 0, <<>>, <<>>, <<>>)

JNum(n) == JVal("number", FALSE, n, <<>>, <<>>, <<>>)

JStr(str) == JVal("string", FALSE, 0, str, <<>>, <<>>)

JArr(items) == JVal("array", FALSE, 0, <<>>, items, <<>>)

\* An object: its keys in insertion order and the values beside them
JObj(keys, vals) == JVal("object", FALSE, 0, <<>>, vals, keys)

\* !v
Falsy(v) ==
  \/ v.t \in {"undefined", "null"}
  \/ v.t = "boolean" /\ ~v.b
  \/ v.t = "number" /\ v.n = 0
  \/ v.t = "string" /\ v.s = <<>>

\* v[key] for the keys the code reads (none of them a property of a string,
\* a number or an array)
Get(v, key) ==
  IF v.t = "object" /\ \E i \in 1..Len(v.k) : v.k[i] = key
  THEN v.a[Max({i \in 1..Len(v.k) : v.k[i] = key})]
  ELSE JUndefined

\* The properties of an object whose value is not undefined
Defined(keys, vals) ==
  LET idx == SelectSeq([i \in 1..Len(keys) |-> i], LAMBDA i : vals[i].t # "undefined")
  IN JObj([j \in 1..Len(idx) |-> keys[idx[j]]], [j \in 1..Len(idx) |-> vals[idx[j]]])

\* JSON.stringify of a string's characters: quote and backslash escaped
RECURSIVE Escape(_)
Escape(str) ==
  IF str = <<>> THEN <<>>
  ELSE (IF Head(str) \in {QUOTE, BSLASH} THEN <<BSLASH, Head(str)>> ELSE <<Head(str)>>) \o Escape(Tail(str))

\* The decimal digits of a natural number
RECURSIVE NumText(_)
NumText(n) == IF n < 10 THEN <<Digits[n + 1]>> ELSE NumText(n \div 10) \o <<Digits[(n % 10) + 1]>>

\* JSON.stringify(v), without indentation
RECURSIVE JSONstringify(_)
RECURSIVE StringifyItems(_, _)
RECURSIVE StringifyMembers(_, _, _)
JSONstringify(v) ==
  IF v.t = "null" THEN <<"null">>
  ELSE IF v.t = "boolean" THEN (IF v.b THEN <<"true">> ELSE <<"false">>)
  ELSE IF v.t = "number" THEN NumText(v.n)
  ELSE IF v.t = "string" THEN <<QUOTE>> \o Escape(v.s) \o <<QUOTE>>
  ELSE IF v.t = "array" THEN <<"[">> \o StringifyItems(v.a, 1) \o <<"]">>
  ELSE <<"{">> \o StringifyMembers(v.k, v.a, 1) \o <<"}">>

\* the items of an array from the i-th on; undefined is written as null
StringifyItems(items, i) ==
  IF i > Len(items) THEN <<>>
  ELSE (IF i > 1 THEN <<",">> ELSE <<>>)
       \o (IF items[i].t = "undefined" THEN <<"null">> ELSE JSONstringify(items[i]))
       \o StringifyItems(items, i + 1)

\* the members of an object (none undefined) from the i-th on
StringifyMembers(keys, vals, i) ==
  IF i > Len(keys) THEN <<>>
  ELSE (IF i > 1 THEN <<",">> ELSE <<>>)
       \o <<QUOTE>> \o Escape(keys[i]) \o <<QUOTE, ":">> \o JSONstringify(vals[i])
       \o StringifyMembers(keys, vals, i + 1)

\* The outcome of a parsing step: the value read and the index after it
ParseFail == [ok |-> FALSE, v |-> JUndefined, i |-> 0]

ParseOk(v, i) == [ok |-> TRUE, v |-> v, i |-> i]

RECURSIVE SkipWs(_, _)
SkipWs(t, i) == IF i <= Len(t) /\ IsSpace(t[i]) THEN SkipWs(t, i + 1) ELSE i

\* The characters of a string literal from index i, after its opening quote,
\* to its closing quote; of the escapes, only those of quote and backslash
RECURSIVE ParseString(_, _, _)
ParseString(t, i, acc) ==
  IF i > Len(t) THEN ParseFail
  ELSE IF t[i] = QUOTE THEN ParseOk(JStr(acc), i + 1)
  ELSE IF t[i] = BSLASH
       THEN (IF i + 1 <= Len(t) /\ t[i + 1] \in {QUOTE, BSLASH}
             THEN ParseString(t, i + 2, Append(acc, t[i + 1]))
             ELSE ParseFail)
  ELSE ParseString(t, i + 1, Append(acc, t[i]))

\* A run of digits (natural numbers only)
RECURSIVE ParseNumber(_, _, _)
ParseNumber(t, i, n) ==
  IF i <= Len(t) /\ IsDigit(t[i]) THEN ParseNumber(t, i + 1, 10 * n + DigitVal(t[i])) ELSE ParseOk(JNum(n), i)

RECURSIVE ParseValue(_, _)
RECURSIVE ParseItems(_, _, _)
RECURSIVE ParseMembers(_, _, _, _)
ParseValue(t, i0) ==
  LET i == SkipWs(t, i0)
  IN IF i > Len(t) THEN ParseFail
     ELSE IF t[i] = "null" THEN ParseOk(JNull, i + 1)
     ELSE IF t[i] = "true" THEN ParseOk(JBool(TRUE), i + 1)
     ELSE IF t[i] = "false" THEN ParseOk(JBool(FALSE), i + 1)
     ELSE IF IsDigit(t[i])
          THEN (IF t[i] = "0" /\ i + 1 <= Len(t) /\ IsDigit(t[i + 1]) THEN ParseFail ELSE ParseNumber(t, i, 0))
     ELSE IF t[i] = QUOTE THEN ParseString(t, i + 1, <<>>)
     ELSE IF t[i] = "["
          THEN (LET j == SkipWs(t, i + 1)
                IN IF j <= Len(t) /\ t[j] = "]" THEN ParseOk(JArr(<<>>), j + 1) ELSE ParseItems(t, i + 1, <<>>))
     ELSE IF t[i] = "{"
          THEN (LET j == SkipWs(t, i + 1)
                IN IF j <= Len(t) /\ t[j] = "}" THEN ParseOk(JObj(<<>>, <<>>), j + 1)
                   ELSE ParseMembers(t, i + 1, <<>>, <<>>))
     ELSE ParseFail

\* a value of an array, then a comma and more values, or the closing bracket
ParseItems(t, i, acc) ==
  LET r == ParseValue(t, i)
  IN IF ~r.ok THEN ParseFail
     ELSE LET j == SkipWs(t, r.i)
          IN IF j > Len(t) THEN ParseFail
             ELSE IF t[j] = "," THEN ParseItems(t, j + 1, Append(acc, r.v))
             ELSE IF t[j] = "]" THEN ParseOk(JArr(Append(acc, r.v)), j + 1)
             ELSE ParseFail

\* a member of an object, then a comma and more members, or the closing brace
ParseMembers(t, i0, keys, vals) ==
  LET i == SkipWs(t, i0)
  IN IF i > Len(t) \/ t[i] # QUOTE THEN ParseFail
     ELSE LET key == ParseString(t, i + 1, <<>>)
              c == SkipWs(t, key.i)
          IN IF ~key.ok \/ c > Len(t) \/ t[c] # ":" THEN ParseFail
             ELSE LET r == ParseValue(t, c + 1)
                      j == SkipWs(t, r.i)
                  IN IF ~r.ok \/ j > Len(t) THEN ParseFail
                     ELSE IF t[j] = "," THEN ParseMembers(t, j + 1, Append(keys, key.v.s), Append(vals, r.v))
                     ELSE IF t[j] = "}" THEN ParseOk(JObj(Append(keys, key.v.s), Append(vals, r.v)), j + 1)
                     ELSE ParseFail

\* JSON.parse(text): the value, or a SyntaxError thrown
JSONparse(t) ==
  LET r == ParseValue(t, 1)
  IN IF r.ok /\ SkipWs(t, r.i) > Len(t) THEN [threw |-> FALSE, v |-> r.v] ELSE [threw |-> TRUE, v |-> JUndefined]

\* ----------------------------------------------------- slices as JSON
\* A Slice of the editor: the tokens of its content, openStart, openEnd
EmptySlice == [content |-> <<>>, openStart |-> 0, openEnd |-> 0]

Key(name) == <<name>>

\* Node types whose attrs are objectId and isDeco; a blockquote has none
HasAttrs(type) == type \in TextBlockTypes

NodeTypes == {"paragraph", "heading", "blockquote"}

\* (variant: a flag the record does not have written as false)
FlagToJSON_AbsentFalse(f) == IF f = "true" THEN JBool(TRUE) ELSE JBool(FALSE)

\* A flag of isDeco as JSON.stringify writes it: a key without value is left out
FlagToJSON(f) == IF f = "true" THEN JBool(TRUE) ELSE IF f = "false" THEN JBool(FALSE) ELSE JUndefined

DecoToJSON(deco) ==
  IF ~deco.present THEN JNull
  ELSE Defined(<<Key("isSlice"), Key("isTag"), Key("isComment")>>,
               <<FlagToJSON(deco.isSlice), FlagToJSON(deco.isTag), FlagToJSON(deco.isComment)>>)

IdToJSON(oid) == IF oid = NullId THEN JNull ELSE JStr(<<oid>>)

AttrsToJSON(node) == JObj(<<Key("objectId"), Key("isDeco")>>, <<IdToJSON(node.objectId), DecoToJSON(node.isDeco)>>)

\* The number of character tokens tokens starts with
RECURSIVE RunLen(_)
RunLen(tokens) == IF tokens # <<>> /\ IsChar(Head(tokens)) THEN 1 + RunLen(Tail(tokens)) ELSE 0

\* TextNode.toJSON()
TextToJSON(chars) ==
  JObj(<<Key("type"), Key("text")>>, <<JStr(<<"text">>), JStr([i \in 1..Len(chars) |-> chars[i].c])>>)

\* Node.toJSON() of each node of a fragment; a run of characters is one
\* text node
RECURSIVE FragmentNodes(_)
RECURSIVE NodeToJSON(_, _)
FragmentNodes(tokens) ==
  IF tokens = <<>> THEN <<>>
  ELSE IF IsChar(tokens[1])
       THEN <<TextToJSON(Take(tokens, RunLen(tokens)))>> \o FragmentNodes(Drop(tokens, RunLen(tokens)))
  ELSE LET e == NodeEnd(tokens, 1)
       IN <<NodeToJSON(tokens[1], SubSeq(tokens, 2, e - 1))>> \o FragmentNodes(Drop(tokens, e))

NodeToJSON(node, inner) ==
  Defined(<<Key("type"), Key("attrs"), Key("content")>>,
          <<JStr(<<node.type>>),
            IF HasAttrs(node.type) THEN AttrsToJSON(node) ELSE JUndefined,
            IF inner = <<>> THEN JUndefined ELSE JArr(FragmentNodes(inner))>>)

\* Fragment.toJSON(): null for the empty fragment
FragmentToJSON(tokens) == IF tokens = <<>> THEN JNull ELSE JArr(FragmentNodes(tokens))

\* The open tokens of the nodes around position p, outermost first
RECURSIVE OpenStack(_, _)
OpenStack(d, p) ==
  IF p = 0 THEN <<>>
  ELSE LET st == OpenStack(d, p - 1)
       IN IF IsOpen(d[p]) THEN Append(st, d[p])
          ELSE IF IsClose(d[p]) THEN Take(st, Len(st) - 1)
          ELSE st

\* state.selection.content(): doc.slice(from, to, true), the nodes around
\* both ends kept open
SelectionContent(d, s) ==
  [content |-> OpenStack(d, s.from) \o SubSeq(d, s.from + 1, s.to) \o [i \in 1..DepthAt(d, s.to) |-> Close],
   openStart |-> DepthAt(d, s.from), openEnd |-> DepthAt(d, s.to)]

\* The outcome of reading nodes from JSON: the tokens, or a RangeError
FromJSONThrew == [threw |-> TRUE, tokens |-> <<>>]

FromJSONOk(tokens) == [threw |-> FALSE, tokens |-> tokens]

\* computeAttrs: the flags are booleans and an objectId is one chunk in
\* every text the inputs hold
FlagFromJSON(v) == IF v.t = "boolean" THEN (IF v.b THEN "true" ELSE "false") ELSE "absent"

DecoFromJSON(v) ==
  IF v.t = "object"
  THEN Deco(FlagFromJSON(Get(v, Key("isSlice"))), FlagFromJSON(Get(v, Key("isTag"))), FlagFromJSON(Get(v, Key("isComment"))))
  ELSE NullDeco

IdFromJSON(v) == IF v.t = "string" /\ Len(v.s) = 1 THEN v.s[1] ELSE NullId

\* Fragment.fromJSON, Node.fromJSON (the schema has no marks)
RECURSIVE FragmentFromJSON(_)
RECURSIVE NodesFromJSON(_, _)
RECURSIVE NodeFromJSON(_)
FragmentFromJSON(v) ==
  IF Falsy(v) THEN FromJSONOk(<<>>)
  ELSE IF v.t # "array" THEN FromJSONThrew
  ELSE NodesFromJSON(v.a, 1)

NodesFromJSON(items, i) ==
  IF i > Len(items) THEN FromJSONOk(<<>>)
  ELSE LET n == NodeFromJSON(items[i])
           rest == NodesFromJSON(items, i + 1)
       IN IF n.threw \/ rest.threw THEN FromJSONThrew ELSE FromJSONOk(n.tokens \o rest.tokens)

NodeFromJSON(json) ==
  LET marks == Get(json, Key("marks"))
      type == Get(json, Key("type"))
      text == Get(json, Key("text"))
      attrs == Get(json, Key("attrs"))
      content == FragmentFromJSON(Get(json, Key("content")))
  IN IF Falsy(json) THEN FromJSONThrew
     ELSE IF ~Falsy(marks) /\ ~(marks.t = "array" /\ marks.a = <<>>) THEN FromJSONThrew
     ELSE IF type = JStr(<<"text">>)
          THEN (IF text.t # "string" \/ text.s = <<>> THEN FromJSONThrew ELSE FromJSONOk(Chars(text.s)))
     ELSE IF content.threw THEN FromJSONThrew
     ELSE IF ~(type.t = "string" /\ Len(type.s) = 1 /\ type.s[1] \in NodeTypes) THEN FromJSONThrew
     ELSE FromJSONOk(<<Open(type.s[1],
                            IF HasAttrs(type.s[1]) THEN IdFromJSON(Get(attrs, Key("objectId"))) ELSE NullId,
                            IF HasAttrs(type.s[1]) THEN DecoFromJSON(Get(attrs, Key("isDeco"))) ELSE NullDeco)>>
                     \o content.tokens \o <<Close>>)

\* json.openStart || 0
OrZero(v) == IF Falsy(v) THEN JNum(0) ELSE v

\* Slice.fromJSON(schema, json): the slice, or a RangeError
SliceFromJSON(json) ==
  LET openStart == OrZero(Get(json, Key("openStart")))
      openEnd == OrZero(Get(json, Key("openEnd")))
      content == FragmentFromJSON(Get(json, Key("content")))
  IN IF Falsy(json) THEN [threw |-> FALSE, slice |-> EmptySlice]
     ELSE IF openStart.t # "number" \/ openEnd.t # "number" \/ content.threw THEN [threw |-> TRUE, slice |-> EmptySlice]
     ELSE [threw |-> FALSE, slice |-> [content |-> content.tokens, openStart |-> openStart.n, openEnd |-> openEnd.n]]

\* ------------------------------------------------------ clipboard codec
InstanceUrl == "http://modusoperandi.com/editor/instance/"

ReferenceUrl == "http://modusoperandi.com/ont/document#Reference_nodes"

\* The length the name snippet of a slice is cut to
SnippetLen == 20

RECURSIVE TrimStart(_)
TrimStart(str) == IF str # <<>> /\ IsSpace(Head(str)) THEN TrimStart(Tail(str)) ELSE str

RECURSIVE TrimEnd(_)
TrimEnd(str) == IF str # <<>> /\ IsSpace(str[Len(str)]) THEN TrimEnd(Take(str, Len(str) - 1)) ELSE str

\* String.prototype.trim, for the space and the line feed
Trim(str) == TrimEnd(TrimStart(str))

\* node.textContent of the node whose open token is at index i
TextContent(d, i) ==
  LET cs == SelectSeq(SubSeq(d, i + 1, NodeEnd(d, i) - 1), IsChar)
  IN [j \in 1..Len(cs) |-> cs[j].c]

\* (variant: every textblock in the range is taken, headings too)
ParagraphsBetween_Textblocks(d, from, to) ==
  SelectSeq([i \in 1..Len(d) |-> i],
            LAMBDA i : IsOpen(d[i]) /\ d[i].type \in TextBlockTypes /\ NodeEnd(d, i) > from /\ i - 1 < to)

\* (variant: the text is not cut)
Snippet_Whole(text) == text

\* text.substring(0, 20)
Snippet(text) == Take(text, IF Len(text) > SnippetLen THEN SnippetLen ELSE Len(text))

\* doc.nodesBetween(from, to, f): the paragraphs f is called on, as the
\* indexes of their open tokens
ParagraphsBetween(d, from, to) ==
  SelectSeq([i \in 1..Len(d) |-> i],
            LAMBDA i : IsOpen(d[i]) /\ d[i].type = "paragraph" /\ NodeEnd(d, i) > from /\ i - 1 < to)

\* createSliceObject(editorView): source is the objectId of the view's
\* document, uuid the result of uuidv4(), today the date
createSliceObject(d, s, source, uuid, today) ==
  LET from == InnerStart(d, s.from)
      to == NodeEnd(d, InnerStart(d, s.to)) - 1
      paragraphs == ParagraphsBetween(d, from, to)
      withText == SelectSeq(paragraphs, LAMBDA i : Trim(TextContent(d, i)) # <<>>)
      withId == SelectSeq(paragraphs, LAMBDA i : d[i].objectId # NullId)
      objectIds == [j \in 1..Len(withId) |-> <<d[withId[j]].objectId>>]
      firstParagraphText == IF withText = <<>> THEN <<"Untitled">> ELSE Trim(TextContent(d, withText[1]))
  IN [name |-> Snippet(firstParagraphText) \o <<" - ", today>>, description |-> <<>>, id |-> <<InstanceUrl, uuid>>,
      referenceType |-> <<ReferenceUrl>>, source |-> source,
      from |-> IF objectIds = <<>> THEN <<>> ELSE objectIds[1],
      to |-> IF objectIds = <<>> THEN <<>> ELSE objectIds[Len(objectIds)],
      ids |-> objectIds]

SliceModelToJSON(m) ==
  JObj(<<Key("name"), Key("description"), Key("id"), Key("referenceType"), Key("source"), Key("from"), Key("to"), Key("ids")>>,
       <<JStr(m.name), JStr(m.description), JStr(m.id), JStr(m.referenceType), IdToJSON(m.source), JStr(m.from),
         JStr(m.to), JArr([j \in 1..Len(m.ids) |-> JStr(m.ids[j])])>>)

\* The envelope copySelectionRich serialises
sliceJSON(slice, sliceModel) ==
  JObj(<<Key("content"), Key("openStart"), Key("openEnd"), Key("sliceModel")>>,
       <<FragmentToJSON(slice.content), JNum(slice.openStart), JNum(slice.openEnd), SliceModelToJSON(sliceModel)>>)

\* slice.content.textBetween(0, size, "\n") of doc.slice(from, to): the
\* characters, with the separator before every textblock after the first
RECURSIVE TextBetween(_)
TextBetween(tokens) ==
  IF tokens = <<>> THEN <<>>
  ELSE (IF IsChar(Head(tokens)) THEN <<Head(tokens).c>>
        ELSE IF IsOpen(Head(tokens)) /\ Head(tokens).type \in TextBlockTypes THEN <<"\n">>
        ELSE <<>>)
       \o TextBetween(Tail(tokens))

\* The parent of the node whose open token is at index i: the index of its
\* open token, 0 for the document
ParentOf(d, i) == IF DepthAt(d, i - 1) = 0 THEN 0 ELSE InnerStart(d, i - 1)

\* tr.deleteRange(from, to), both ends in textblocks of one depth: a range
\* from the start of a textblock into a later sibling is deleted with the
\* whole first textblock, so that the rest keeps the sibling's markup
deleteRange(d, from, to) ==
  LET i == InnerStart(d, from)
      j == InnerStart(d, to)
  IN IF from = to THEN <<>>
     ELSE IF i # j /\ from = i /\ to # NodeEnd(d, j) - 1 /\ ParentOf(d, i) = ParentOf(d, j)
          THEN <<ReplaceStep(from - 1, to, <<d[j]>>)>>
     ELSE <<ReplaceStep(from, to, <<>>)>>

\* tr.replaceSelection(slice) for a slice as open at each side as the
\* selection's end is deep: the open nodes of the slice join the nodes
\* around the selection
replaceSelection(d, s, slice) ==
  IF Len(slice.content) - slice.openStart - slice.openEnd = 0 THEN deleteRange(d, s.from, s.to)
  ELSE <<ReplaceStep(s.from, s.to, SubSeq(slice.content, slice.openStart + 1, Len(slice.content) - slice.openEnd))>>

\* (variant: the text inserted at the start of the selection, nothing replaced)
insertText_AtFrom(d, text, from, to) ==
  IF text = <<>> THEN deleteRange(d, from, to) ELSE <<ReplaceStep(from, from, Chars(text))>>

\* tr.insertText(text, from, to)
insertText(d, text, from, to) ==
  IF text = <<>> THEN deleteRange(d, from, to) ELSE <<ReplaceStep(from, to, Chars(text))>>

\* The transaction pasteFromClipboard builds from the clipboard text: the
\* parsed slice over the selection, or, when JSON.parse or Slice.fromJSON
\* throws, the text over the selection
pasteSteps(d, s, text) ==
  LET parsed == JSONparse(text)
      slice == SliceFromJSON(parsed.v)
  IN IF ~parsed.threw /\ ~slice.threw
     THEN [kind |-> "slice", slice |-> slice.slice, steps |-> replaceSelection(d, s, slice.slice)]
     ELSE [kind |-> "text", slice |-> EmptySlice, steps |-> insertText(d, text, s.from, s.to)]

\* (variant: the value of the test is returned as it is)
clipboardHasProseMirrorData_Uncoerced(text) ==
  LET parsed == JSONparse(text)
      content == Get(parsed.v, Key("content"))
  IN IF text = <<>> \/ parsed.threw THEN JBool(FALSE)
     ELSE IF Falsy(parsed.v) THEN parsed.v
     ELSE IF parsed.v.t \notin {"object", "array"} THEN JBool(FALSE)
     ELSE IF Falsy(content) THEN content
     ELSE IF content.t = "array" THEN JBool(TRUE)
     ELSE Get(content, Key("type"))

\* clipboardHasProseMirrorData() when readText resolves with text, as a
\* JavaScript value: false for no text and when JSON.parse throws, else the
\* test of the parsed value made a boolean
clipboardHasProseMirrorData(text) ==
  LET parsed == JSONparse(text)
      content == Get(parsed.v, Key("content"))
  IN IF text = <<>> \/ parsed.threw THEN JBool(FALSE)
     ELSE JBool(/\ ~Falsy(parsed.v)
                /\ parsed.v.t \in {"object", "array"}
                /\ ~Falsy(content)
                /\ (content.t = "array" \/ ~Falsy(Get(content, Key("type")))))

\* frag.forEach(node => plainText += node.textContent + "\n") over the
\* nodes of a fragment
RECURSIVE TopNodesText(_)
TopNodesText(tokens) ==
  IF tokens = <<>> THEN <<>>
  ELSE IF IsChar(tokens[1])
       THEN [j \in 1..RunLen(tokens) |-> tokens[j].c] \o <<"\n">> \o TopNodesText(Drop(tokens, RunLen(tokens)))
  ELSE TextContent(tokens, 1) \o <<"\n">> \o TopNodesText(Drop(tokens, NodeEnd(tokens, 1)))

\* The text pasteAsPlainText inserts for a clipboard text: the trimmed
\* text of the slice it parses to, or the text as it is when JSON.parse or
\* Slice.fromJSON throws
plainText(text) ==
  LET parsed == JSONparse(text)
      slice == SliceFromJSON(parsed.v)
  IN IF ~parsed.threw /\ ~slice.threw THEN Trim(TopNodesText(slice.slice.content)) ELSE text

\* changeAttribute(view): setNodeMarkup of the depth-1 node around the
\* selection's start, its isDeco copied with isSlice = true; a blockquote
\* has no attrs to keep it
changeAttribute(d, s) ==
  LET i == BlockStart(d, s.from)
  IN <<SetNodeMarkupStep(d, i - 1, d[i].type, d[i].objectId,
                         IF d[i].type \in TextBlockTypes THEN SliceAttrs(d[i]) ELSE d[i].isDeco)>>

\* ----------------------------------------------------------------- state
VARIABLES
  doc,          \* view.state.doc, as tokens
  sel,          \* view.state.selection, [from, to]
  decorations,  \* the plugin state's decorations
  lastApply,    \* what the last call of the plugin state's apply did
  docObjectId,  \* view.state.doc.attrs.objectId
  docSlices,    \* the slice manager's cache
  lastSliceOp,  \* what the last call of the slice manager did
  otherSlices,  \* the cache of a second slice manager, of another createSliceManager call
  held,         \* the list a caller of the slice manager kept: the cache's array or a former one
  clipboard,    \* the text on the system clipboard
  copied,       \* the slice copySelectionRich wrote that text from, if it did
  pending,      \* whether a pasteFromClipboard call waits for readText
  lastPaste,    \* what the pasteFromClipboard call that ended last step did
  popUpHandle,  \* plugin._popUpHandle: "null" or "open"
  popUps,       \* how many popups are mounted
  probes,       \* how many clipboardHasProseMirrorData calls of openFloatingMenu wait
  lastCopy,     \* what the copy handler that ran last step did
  runtime,      \* the FloatRuntime the slice manager was created with: "absent" or "present"
  sliceManager, \* plugin.sliceManager: "absent" or "present"
  calls,        \* for each asynchronous operation, where its call in flight waits
  lastCall      \* what the step of an asynchronous operation that ran last did

viewVars == <<doc, sel, decorations, lastApply>>

sliceVars == <<docObjectId, docSlices, lastSliceOp, otherSlices, held>>

popVars == <<popUpHandle, popUps, probes>>

remoteVars == <<runtime, sliceManager, calls, lastCall>>

clipVars == <<clipboard, copied, pending, lastPaste, popVars, lastCopy, remoteVars>>

vars == <<doc, sel, decorations, lastApply, docObjectId, docSlices, lastSliceOp, otherSlices, held,
          clipboard, copied, pending, lastPaste, popUpHandle, popUps, probes,
          lastCopy, runtime, sliceManager, calls, lastCall>>

\* ---------------------------------------------------------- transactions
\* A transaction: its steps, the forceRescan field of its meta for the
\* plugin key ("absent" when no meta is set), and an explicit selection.
Transaction(steps, force, selSet, s) ==
  [steps |-> steps, forceRescan |-> force, selSet |-> selSet, sel |-> s, scrolledIntoView |-> FALSE]

\* tr.scrollIntoView()
scrollIntoView(tr) == [tr EXCEPT !.scrolledIntoView = TRUE]

StepTypesOf(steps) == {steps[i].stepType : i \in 1..Len(steps)}

\* tr.docChanged
DocChanged(tr) == Len(tr.steps) > 0

\* (variant: the test without the replaceAround step type)
requiresRescan_NoReplaceAround(tr) ==
  \/ \E i \in 1..Len(tr.steps) :
        \/ tr.steps[i].stepType = "replace"
        \/ tr.steps[i].stepType = "setNodeMarkup"
  \/ tr.forceRescan = "true"

\* The rescan test of apply
requiresRescan(tr) ==
  \/ \E i \in 1..Len(tr.steps) :
        \/ tr.steps[i].stepType = "replace"
        \/ tr.steps[i].stepType = "replaceAround"
        \/ tr.steps[i].stepType = "setNodeMarkup"
  \/ tr.forceRescan = "true"

\* The plugin state's apply(tr, prev, oldState, newState); trDoc is tr.doc
apply(tr, prev, trDoc) ==
  LET mapped == DecorationSetMap(prev)
  IN IF ~DocChanged(tr)
     THEN (IF mapped.threw THEN [outcome |-> "threw", decorations |-> prev]
           ELSE [outcome |-> "mapped", decorations |-> mapped.val])
     ELSE IF mapped.threw THEN [outcome |-> "threw", decorations |-> prev]
     ELSE IF requiresRescan(tr) THEN [outcome |-> "rescan", decorations |-> getDecorations(trDoc)]
     ELSE [outcome |-> "kept", decorations |-> mapped.val]

\* The selection of the state a transaction produces
NewSelection(tr, trDoc) == IF tr.selSet THEN tr.sel ELSE SelectionMap(sel, trDoc, tr.steps)

\* What a call of apply did: its outcome, and of the transaction whether it
\* had steps, a replace or replace-around step, an attr step, and its meta
ApplyRecord(tr, r) ==
  [outcome |-> r.outcome, docChanged |-> DocChanged(tr),
   contentStep |-> StepTypesOf(tr.steps) \cap {"replace", "replaceAround"} # {},
   attrStep |-> "attr" \in StepTypesOf(tr.steps),
   forceRescan |-> tr.forceRescan, prev |-> decorations]

\* view.dispatch(tr): state.apply(tr) runs the plugin state's apply; when
\* that throws, the exception leaves dispatch and the view keeps its state.
Dispatch(tr) ==
  LET trDoc == StepsApply(doc, tr.steps)
      r == apply(tr, decorations, trDoc)
  IN /\ lastApply' = ApplyRecord(tr, r)
     /\ IF r.outcome = "threw"
        THEN UNCHANGED <<doc, sel, decorations>>
        ELSE /\ doc' = trDoc
             /\ sel' = NewSelection(tr, trDoc)
             /\ decorations' = r.decorations

DispatchThrows(tr) == apply(tr, decorations, StepsApply(doc, tr.steps)).outcome = "threw"

\* ------------------------------------------------------ inputs and Init
\* isDeco values the edits write
DecoVals == {NullDeco, Deco("true", "absent", "absent")}

\* Documents the editor is opened on
InitDocs ==
  { <<Open("paragraph", "o1", NullDeco), Close, Open("paragraph", "o2", NullDeco), Close>>,
    <<Open("blockquote", NullId, NullDeco), Open("paragraph", "o2", Deco("true", "absent", "absent")), Close, Close>>,
    <<Open("paragraph", "o1", Deco("true", "true", "true")), Close,
      Open("paragraph", "o2", Deco("false", "false", "false")), Close>>,
    <<Open("heading", "o1", NullDeco), Char("a"), Char("b"), Close>>,
    <<Open("heading", "o2", Deco("absent", "true", "true")), Close,
      Open("paragraph", NullId, Deco("false", "absent", "true")), Close>> }

\* Selection.atStart(doc), the selection of a fresh EditorState
AtStart(d) == [from |-> Min(TextPositions(d)), to |-> Min(TextPositions(d))]

NoApply ==
  [outcome |-> "init", docChanged |-> FALSE, contentStep |-> FALSE, attrStep |-> FALSE,
   forceRescan |-> "absent", prev |-> EmptyDecorationSet]

\* The caller keeps no list; array is "none", "cache" for the array the
\* cache is, or "former" for an array the cache was, whose elements list holds
NoList == [array |-> "none", list |-> <<>>]

NoSliceOp ==
  [op |-> "none", before |-> <<>>, candidates |-> <<>>, docBefore |-> <<>>, trDoc |-> <<>>, applied |-> FALSE,
   returned |-> <<>>, manager |-> "plugin"]

NoCopy == [done |-> FALSE, slice |-> EmptySlice]

NoPaste ==
  [outcome |-> "none", kind |-> "", text |-> <<>>, slice |-> EmptySlice, copied |-> NoCopy, dispatches |-> 0,
   baseDoc |-> <<>>, baseSel |-> [from |-> 0, to |-> 0],
   tr |-> Transaction(<<>>, "absent", FALSE, [from |-> 0, to |-> 0]), trDoc |-> <<>>,
   applied |-> FALSE, rejected |-> FALSE]

NoCopyCall ==
  [call |-> "none", empty |-> FALSE, before |-> <<>>, doc |-> <<>>, sel |-> [from |-> 0, to |-> 0],
   handle |-> "null", updated |-> FALSE,
   source |-> NullId, today |-> "", writeText |-> FALSE,
   sliceModel |-> [name |-> <<>>, description |-> <<>>, id |-> <<>>, referenceType |-> <<>>, source |-> NullId,
                   from |-> <<>>, to |-> <<>>, ids |-> <<>>]]

\* The asynchronous operations of the plugin
Operations == {"pasteAsReference", "createNewSlice", "showReferences", "getDocSlices", "pasteAsPlainText"}

IdleCall == [stage |-> "idle", arg |-> JUndefined, text |-> <<>>]

NoCall ==
  [op |-> "none", outcome |-> "none", reported |-> FALSE, attempted |-> FALSE, arg |-> JUndefined,
   val |-> JUndefined, inserted |-> 0, insertedId |-> JUndefined, insertedSource |-> JUndefined,
   dispatches |-> 0, docBefore |-> <<>>, cacheBefore |-> <<>>, text |-> <<>>,
   stage |-> "none", settled |-> "none", result |-> "none", plainText |-> <<>>, fetched |-> <<>>,
   target |-> "none"]

\* A plugin constructed with a runtime, no operation called yet
InitRemote ==
  /\ runtime = "present"
  /\ sliceManager = "present"
  /\ calls = [op \in Operations |-> IdleCall]
  /\ lastCall = NoCall

\* A fresh slice manager: an empty cache
InitSliceManager ==
  /\ docSlices = <<>>
  /\ lastSliceOp = NoSliceOp
  /\ otherSlices = <<>>
  /\ held = NoList

\* No clipboard call made yet, the system clipboard empty
InitClipboard ==
  /\ clipboard = <<>>
  /\ copied = NoCopy
  /\ pending = FALSE
  /\ lastPaste = NoPaste
  /\ popUpHandle = "null"
  /\ popUps = 0
  /\ probes = 0
  /\ lastCopy = NoCopyCall

\* state.init: the full scan of the initial document
InitDeco ==
  /\ doc \in InitDocs
  /\ sel = AtStart(doc)
  /\ decorations = getDecorations(doc)
  /\ lastApply = NoApply
  /\ docObjectId = "d1"
  /\ InitSliceManager
  /\ InitClipboard
  /\ InitRemote

Init == InitDeco

\* Blocks an edit inserts between the children of the document
NewBlocks ==
  { <<Open("paragraph", NullId, Deco("false", "true", "true")), Close>>,
    <<Open("heading", NullId, NullDeco), Close>> }

\* The steps an edit at the selection s of document d can make:
\* typing over the selection
InsertTextSteps(d, s) == {ReplaceStep(s.from, s.to, <<Char("a")>>)}

\* deleting the character before the cursor, or the block at the cursor
DeleteSteps(d, s) ==
  LET i == BlockStart(d, s.from)
  IN {ReplaceStep(s.from - 1, s.from, <<>>), ReplaceStep(i - 1, NodeEnd(d, i), <<>>)}

\* inserting a block at the start or the end of the document
InsertBlockSteps(d, s) == {ReplaceStep(p, p, b) : p \in {0, Len(d)}, b \in NewBlocks}

\* changing the type or the isDeco attribute of the textblock at the selection
SetNodeMarkupSteps(d, s) ==
  LET i == InnerStart(d, s.from)
  IN {SetNodeMarkupStep(d, i - 1, ty, d[i].objectId, dv) : ty \in TextBlockTypes, dv \in DecoVals}

\* wrapping the block at the selection in a blockquote, or lifting it out
WrapSteps(d, s) ==
  LET i == BlockStart(d, s.from)
  IN IF d[i].type = "blockquote" THEN {}
     ELSE {ReplaceAroundStep(i - 1, NodeEnd(d, i), i - 1, NodeEnd(d, i), <<Open("blockquote", NullId, NullDeco)>>, <<Close>>)}

LiftSteps(d, s) ==
  LET i == BlockStart(d, s.from)
  IN IF d[i].type = "blockquote" THEN {ReplaceAroundStep(i - 1, NodeEnd(d, i), i, NodeEnd(d, i) - 1, <<>>, <<>>)} ELSE {}

\* tr.setNodeAttribute(pos, "isDeco", value) on the textblock at the selection
AttrSteps(d, s) == {AttrStep(InnerStart(d, s.from) - 1, dv) : dv \in DecoVals}

MarkSteps(d, s) == {MarkStep("addMark", 0, Len(d)), MarkStep("removeMark", 0, Len(d))}

ValidStep(d, st) ==
  /\ st.from <= st.to
  /\ st.stepType \in {"replace", "replaceAround"} =>
        LET r == StepApply(d, st) IN Len(r) <= MaxDocLen /\ WellFormed(r)

\* The single steps of the edits
EditSteps(d, s) ==
  {st \in InsertTextSteps(d, s) \cup DeleteSteps(d, s) \cup InsertBlockSteps(d, s) \cup SetNodeMarkupSteps(d, s)
          \cup WrapSteps(d, s) \cup LiftSteps(d, s) \cup AttrSteps(d, s) \cup MarkSteps(d, s) : ValidStep(d, st)}

\* n addMark steps over the whole of d
Marks(d, n) == [i \in 1..n |-> MarkStep("addMark", 0, Len(d))]

\* The step sequences of the edits: one edit step, with addMark steps before
\* and after it, up to MaxSteps steps in all
StepSeqs(d, s) ==
  UNION { { Marks(d, ij[1]) \o <<st>> \o Marks(StepApply(d, st), ij[2]) : st \in EditSteps(d, s) } :
          ij \in {x \in (0..(MaxSteps - 1)) \X (0..(MaxSteps - 1)) : x[1] + x[2] + 1 <= MaxSteps} }

Cursors(d) == {[from |-> p, to |-> p] : p \in TextPositions(d)}

ForceVals == {"absent", "true"}

\* ------------------------------------------------- decoration engine
\* A transaction that changes no document content: a selection change
\* and/or a meta field
ApplySelectionTr ==
  \E s \in Cursors(doc), force \in ForceVals :
     /\ Dispatch(Transaction(<<>>, force, TRUE, s))
     /\ UNCHANGED <<sliceVars, clipVars>>

\* A transaction with steps
ApplyStepsTr ==
  \E steps \in StepSeqs(doc, sel), force \in ForceVals :
     /\ Dispatch(Transaction(steps, force, FALSE, sel))
     /\ UNCHANGED <<sliceVars, clipVars>>

NextDeco == ApplySelectionTr \/ ApplyStepsTr

SpecDeco == InitDeco /\ [][NextDeco]_vars

\* ------------------------------------------------------ slice manager
DocObjectIds == {"d1", "d2"}

\* Slices the runtime returns or the user creates
SliceModels ==
  { SliceModel("s1", "d1", "o1"), SliceModel("s2", "d1", "o2"), SliceModel("s3", "d2", "o3") }

\* Candidate lists handed to setSlices: up to two slices
CandidateLists == {<<>>} \cup {<<a>> : a \in SliceModels} \cup {<<a, b>> : a, b \in SliceModels}

\* Documents the slice manager works on
SliceDocs ==
  { <<Open("heading", "o1", Deco("absent", "true", "false")), Close, Open("heading", "o2", NullDeco), Close>>,
    <<Open("blockquote", NullId, NullDeco), Open("paragraph", "o2", Deco("false", "absent", "true")), Close, Close,
      Open("heading", "o1", NullDeco), Close>>,
    <<Open("paragraph", "o1", NullDeco), Close, Open("paragraph", NullId, NullDeco), Close>> }

InitSlice ==
  /\ doc \in SliceDocs
  /\ sel = AtStart(doc)
  /\ decorations = getDecorations(doc)
  /\ lastApply = NoApply
  /\ docObjectId \in DocObjectIds
  /\ InitSliceManager
  /\ InitClipboard
  /\ InitRemote

SetSlices ==
  \E slices \in CandidateLists :
     /\ Len(setSlices(slices, docObjectId, docSlices)) <= MaxCache
     /\ docSlices' = setSlices(slices, docObjectId, docSlices)
     /\ held' = Reassigned(held, docSlices)
     /\ lastSliceOp' = [NoSliceOp EXCEPT !.op = "setSlices", !.before = docSlices, !.candidates = slices]
     /\ UNCHANGED <<viewVars, docObjectId, otherSlices, clipVars>>

\* addSliceToList(slice); the caller keeps the array it returns, or not
AddSliceToListFor(kept) ==
  \E slice \in SliceModels :
     /\ Len(docSlices) < MaxCache
     /\ docSlices' = addSliceToList(slice, docSlices)
     /\ lastSliceOp' = [NoSliceOp EXCEPT !.op = "addSliceToList", !.before = docSlices, !.candidates = <<slice>>,
                                         !.returned = addSliceToList(slice, docSlices)]
     /\ held' = IF kept THEN [array |-> "cache", list |-> <<>>] ELSE held
     /\ UNCHANGED <<viewVars, docObjectId, otherSlices, clipVars>>

AddSliceToList == AddSliceToListFor(FALSE)

AddSliceToListKept == AddSliceToListFor(TRUE)

\* getDocSlices() of the slice manager; the caller keeps what it returns
SliceManagerGetDocSlices ==
  /\ held.array # "cache"
  /\ held' = [array |-> "cache", list |-> <<>>]
  /\ lastSliceOp' = [NoSliceOp EXCEPT !.op = "getDocSlices", !.before = docSlices, !.returned = docSlices]
  /\ UNCHANGED <<viewVars, docObjectId, otherSlices, docSlices, clipVars>>

\* The caller pushes a slice onto the list it kept
PushOntoList ==
  \E slice \in SliceModels :
     /\ held.array # "none"
     /\ IF held.array = "cache"
        THEN /\ Len(docSlices) < MaxCache
             /\ docSlices' = Append(docSlices, slice)
             /\ UNCHANGED held
        ELSE /\ Len(held.list) < MaxCache
             /\ held' = [held EXCEPT !.list = Append(@, slice)]
             /\ UNCHANGED docSlices
     /\ lastSliceOp' = [NoSliceOp EXCEPT !.op = "push", !.before = docSlices, !.candidates = <<slice>>]
     /\ UNCHANGED <<viewVars, docObjectId, otherSlices, clipVars>>

\* setSliceAttrs(view): one transaction with a step for every match, and
\* one dispatch of it
SetSliceAttrs ==
  LET tr == Transaction(setSliceAttrsSteps(doc, docSlices), "absent", FALSE, sel)
  IN /\ Dispatch(tr)
     /\ lastSliceOp' = [NoSliceOp EXCEPT !.op = "setSliceAttrs", !.before = docSlices, !.docBefore = doc,
                                         !.trDoc = StepsApply(doc, tr.steps), !.applied = ~DispatchThrows(tr)]
     /\ UNCHANGED <<docObjectId, otherSlices, docSlices, held, clipVars>>

NextSlice == SetSlices \/ AddSliceToList \/ SetSliceAttrs

SpecSlice == InitSlice /\ [][NextSlice]_vars

\* (variant: the cache is one list for every manager)
SetSlicesOfOther_Shared ==
  \E slices \in CandidateLists :
  \E cache \in {setSlices(slices, docObjectId, otherSlices)} :
     /\ Len(cache) <= MaxCache
     /\ otherSlices' = cache
     /\ docSlices' = cache
     /\ lastSliceOp' = [NoSliceOp EXCEPT !.op = "setSlices", !.manager = "other", !.before = otherSlices,
                                         !.candidates = slices]
     /\ UNCHANGED <<viewVars, docObjectId, held, clipVars>>

\* setSlices(slices, state) of the second slice manager: docSlices of its
\* closure is assigned
SetSlicesOfOther ==
  \E slices \in CandidateLists :
  \E cache \in {setSlices(slices, docObjectId, otherSlices)} :
     /\ Len(cache) <= MaxCache
     /\ otherSlices' = cache
     /\ lastSliceOp' = [NoSliceOp EXCEPT !.op = "setSlices", !.manager = "other", !.before = otherSlices,
                                         !.candidates = slices]
     /\ UNCHANGED <<viewVars, docObjectId, docSlices, held, clipVars>>

\* addSliceToList(slice) of the second slice manager
AddSliceToListOfOther ==
  \E slice \in SliceModels :
     /\ Len(otherSlices) < MaxCache
     /\ otherSlices' = addSliceToList(slice, otherSlices)
     /\ lastSliceOp' = [NoSliceOp EXCEPT !.op = "addSliceToList", !.manager = "other", !.before = otherSlices,
                                         !.candidates = <<slice>>,
                                         !.returned = addSliceToList(slice, otherSlices)]
     /\ UNCHANGED <<viewVars, docObjectId, docSlices, held, clipVars>>

\* Two slice managers in one process, each called in any order
NextManagers == SetSlices \/ AddSliceToList \/ SetSlicesOfOther \/ AddSliceToListOfOther

\* Two fresh managers; of the editor state they read doc.attrs.objectId only
InitManagers ==
  /\ InitSlice
  /\ doc = <<Open("paragraph", "o1", NullDeco), Close, Open("paragraph", NullId, NullDeco), Close>>

SpecManagers == InitManagers /\ [][NextManagers]_vars

\* The slice manager and a caller that keeps and changes the lists it gets
NextList == SetSlices \/ AddSliceToList \/ AddSliceToListKept \/ SliceManagerGetDocSlices \/ PushOntoList

SpecList == InitSlice /\ [][NextList]_vars

\* ----------------------------------------------------------- clipboard
\* The most tokens a document grows to by pasting
MaxClipLen == 6

\* The most popups mounted or about to be
MaxPopUps == 2

\* Calls of asynchronous operations that may wait at the same time
MaxCalls == 1

\* The calls that wait: those of the operations, and the paste
InFlight == Cardinality({op \in Operations : calls[op].stage # "idle"}) + (IF pending THEN 1 ELSE 0)

ParagraphsDoc ==
  <<Open("paragraph", "o1", NullDeco), Char("a"), Char(QUOTE), Close,
    Open("paragraph", "o2", Deco("true", "false", "absent")), Char("b"), Close>>

QuotedDoc ==
  <<Open("blockquote", NullId, NullDeco), Open("paragraph", "o1", Deco("absent", "true", "absent")), Char("a"), Close, Close>>

\* Documents the clipboard handlers work on: paragraphs that are children of
\* the document, and a paragraph in a blockquote
ClipDocs == {ParagraphsDoc, QuotedDoc}

TextSelections(d) == {s \in [from : TextPositions(d), to : TextPositions(d)] : s.from <= s.to}

\* Texts another application puts on the clipboard: hi, {"foo, 42,
\* {"foo":1} and {"content":5}
HiText == <<"hi">>

BrokenText == <<"{", QUOTE, "foo">>

FortyTwoText == <<"4", "2">>

FooText == <<"{", QUOTE, "foo", QUOTE, ":", "1", "}">>

ContentFiveText == <<"{", QUOTE, "content", QUOTE, ":", "5", "}">>

ClipboardTexts == {HiText, BrokenText, FortyTwoText, FooText, ContentFiveText}

\* The clipboard text null
NullText == <<"null">>

\* The texts [1], {"content":[]}, {"content":{"type":"doc"}} and
\* {"content":{"foo":1}}
ListText == <<"[", "1", "]">>

ContentListText == <<"{", QUOTE, "content", QUOTE, ":", "[", "]", "}">>

ContentNodeText == <<"{", QUOTE, "content", QUOTE, ":", "{", QUOTE, "type", QUOTE, ":", QUOTE, "doc", QUOTE, "}", "}">>

ContentFooText == <<"{", QUOTE, "content", QUOTE, ":", "{", QUOTE, "foo", QUOTE, ":", "1", "}", "}">>

\* What the clipboard holds when the menu is opened
ProbeTexts == {<<>>, NullText, ListText, ContentListText, ContentNodeText, ContentFooText} \cup ClipboardTexts

UUIDs == {"u1"}

Dates == {"2024-05-01"}

InitClip ==
  /\ doc \in ClipDocs
  /\ sel \in TextSelections(doc)
  /\ decorations = getDecorations(doc)
  /\ lastApply = NoApply
  /\ docObjectId = "d1"
  /\ InitSliceManager
  /\ InitClipboard
  /\ InitRemote

\* plugin._popUpHandle?.close(null) and the clearing of the handle: the
\* popup the handle refers to is unmounted
ClosePopUp ==
  /\ popUpHandle' = "null"
  /\ popUps' = IF popUpHandle = "open" THEN popUps - 1 ELSE popUps
  /\ UNCHANGED probes

\* A step of no asynchronous operation and of no copy handler
NoCallStep ==
  /\ lastCall' = NoCall
  /\ lastCopy' = NoCopyCall
  /\ UNCHANGED <<runtime, sliceManager, calls>>

\* The user moves the selection
SetSelection ==
  \E s \in TextSelections(doc) :
     /\ s # sel
     /\ Dispatch(Transaction(<<>>, "absent", TRUE, s))
     /\ lastPaste' = NoPaste
     /\ NoCallStep
     /\ UNCHANGED <<sliceVars, clipboard, copied, pending, popVars>>

\* Another application writes the clipboard
ClipboardChanged ==
  \E text \in ClipboardTexts :
     /\ clipboard' = text
     /\ copied' = NoCopy
     /\ lastPaste' = NoPaste
     /\ NoCallStep
     /\ UNCHANGED <<viewVars, sliceVars, pending, popVars>>

\* state.selection.empty of copySelectionRich, from === to of
\* copySelectionPlain: the early return of both
ReturnsEarly_Never(s) == FALSE
ReturnsEarly(s) == s.from = s.to

\* What a copy handler that returned at once on an empty selection did
ReturnedOnEmpty(call) ==
  /\ lastCopy' = [NoCopyCall EXCEPT !.call = call, !.empty = TRUE, !.before = clipboard, !.doc = doc, !.sel = sel,
                                    !.handle = popUpHandle]
  /\ lastPaste' = NoPaste
  /\ lastCall' = NoCall
  /\ UNCHANGED <<viewVars, sliceVars, clipboard, copied, pending, popVars, runtime, sliceManager, calls>>

\* copySelectionRich(view, plugin): nothing on an empty selection; on
\* another, writeText succeeds or is rejected, and the popup is closed
CopySelectionRich ==
  IF ReturnsEarly(sel) THEN ReturnedOnEmpty("rich")
  ELSE \E uuid \in UUIDs, today \in Dates, written \in BOOLEAN :
       \E slice \in {SelectionContent(doc, sel)} :
       \E sliceModel \in {createSliceObject(doc, sel, docObjectId, uuid, today)} :
          /\ clipboard' = IF written THEN JSONstringify(sliceJSON(slice, sliceModel)) ELSE clipboard
          /\ copied' = IF written THEN [done |-> TRUE, slice |-> slice] ELSE copied
          /\ lastCopy' = [call |-> "rich", empty |-> FALSE, before |-> clipboard, doc |-> doc, sel |-> sel,
                           handle |-> popUpHandle, updated |-> popUpHandle = "open",
                           source |-> docObjectId, today |-> today, writeText |-> TRUE, sliceModel |-> sliceModel]
          /\ lastPaste' = NoPaste
          /\ lastCall' = NoCall
          /\ ClosePopUp
          /\ UNCHANGED <<viewVars, sliceVars, pending, runtime, sliceManager, calls>>

\* (variant: the popup is closed once the text is written)
CopySelectionPlain_ClosesWhenWritten ==
  IF ReturnsEarly(sel) THEN ReturnedOnEmpty("plain")
  ELSE \E written \in BOOLEAN :
          /\ clipboard' = IF written THEN TextBetween(SubSeq(doc, sel.from + 1, sel.to)) ELSE clipboard
          /\ copied' = IF written THEN NoCopy ELSE copied
          /\ lastCopy' = [NoCopyCall EXCEPT !.call = "plain", !.before = clipboard, !.doc = doc, !.sel = sel,
                                            !.writeText = TRUE, !.handle = popUpHandle]
          /\ lastPaste' = NoPaste
          /\ lastCall' = NoCall
          /\ IF written THEN ClosePopUp ELSE UNCHANGED popVars
          /\ UNCHANGED <<viewVars, sliceVars, pending, runtime, sliceManager, calls>>

\* copySelectionPlain(view, plugin): nothing on a collapsed selection; on
\* another, writeText succeeds or is rejected, and the popup is closed
CopySelectionPlain ==
  IF ReturnsEarly(sel) THEN ReturnedOnEmpty("plain")
  ELSE \E written \in BOOLEAN :
          /\ clipboard' = IF written THEN TextBetween(SubSeq(doc, sel.from + 1, sel.to)) ELSE clipboard
          /\ copied' = IF written THEN NoCopy ELSE copied
          /\ lastCopy' = [NoCopyCall EXCEPT !.call = "plain", !.before = clipboard, !.doc = doc, !.sel = sel,
                                            !.writeText = TRUE, !.handle = popUpHandle]
          /\ lastPaste' = NoPaste
          /\ lastCall' = NoCall
          /\ ClosePopUp
          /\ UNCHANGED <<viewVars, sliceVars, pending, runtime, sliceManager, calls>>

\* pasteFromClipboard(view, plugin) up to its await of readText
PasteFromClipboard ==
  /\ ~pending
  /\ InFlight < MaxCalls
  /\ pending' = TRUE
  /\ lastPaste' = NoPaste
  /\ NoCallStep
  /\ UNCHANGED <<viewVars, sliceVars, clipboard, copied, popVars>>

\* (variant: the rejection of readText leaves the function)
PasteReadRejected_Escapes ==
  /\ pending
  /\ pending' = FALSE
  /\ lastPaste' = [NoPaste EXCEPT !.outcome = "readFailed", !.baseDoc = doc, !.baseSel = sel, !.rejected = TRUE]
  /\ NoCallStep
  /\ ClosePopUp
  /\ UNCHANGED <<viewVars, sliceVars, clipboard, copied>>

\* readText is rejected: the outer catch logs it, the popup is closed
PasteReadRejected ==
  /\ pending
  /\ pending' = FALSE
  /\ lastPaste' = [NoPaste EXCEPT !.outcome = "readFailed", !.baseDoc = doc, !.baseSel = sel]
  /\ NoCallStep
  /\ ClosePopUp
  /\ UNCHANGED <<viewVars, sliceVars, clipboard, copied>>

\* readText resolves: the transaction is built on the state the view then
\* has and dispatched once; an exception of dispatch is caught and logged;
\* the popup is closed
PasteResume ==
  /\ pending
  /\ \E p \in {pasteSteps(doc, sel, clipboard)} :
     \E trDoc \in {StepsApply(doc, p.steps)} :
     \E end \in {Near(trDoc, MapThrough(sel.to, 1, p.steps))} :
     \E tr \in {scrollIntoView(Transaction(p.steps, "absent", TRUE, [from |-> end, to |-> end]))} :
     \E throws \in {DispatchThrows(tr)} :
        /\ throws \/ Len(trDoc) <= MaxClipLen
        /\ pending' = FALSE
        /\ Dispatch(tr)
        /\ lastPaste' = [outcome |-> "dispatched", kind |-> p.kind, text |-> clipboard, slice |-> p.slice,
                          copied |-> copied, dispatches |-> 1, baseDoc |-> doc, baseSel |-> sel, tr |-> tr,
                          trDoc |-> trDoc, applied |-> ~throws, rejected |-> FALSE]
        /\ NoCallStep
        /\ ClosePopUp
        /\ UNCHANGED <<sliceVars, clipboard, copied>>

\* openFloatingMenu(plugin, view, pos, anchorEl, contextPos) up to the
\* clipboard probe: the popup the handle refers to is closed
OpenFloatingMenu ==
  /\ popUps + probes < MaxPopUps
  /\ popUpHandle' = "null"
  /\ popUps' = IF popUpHandle = "open" THEN popUps - 1 ELSE popUps
  /\ probes' = probes + 1
  /\ NoCallStep
  /\ lastPaste' = NoPaste
  /\ UNCHANGED <<viewVars, sliceVars, clipboard, copied, pending>>

\* The probe of openFloatingMenu resolves: createPopUp mounts a popup and
\* the handle refers to it
ProbeResolved ==
  /\ probes > 0
  /\ probes' = probes - 1
  /\ popUps' = popUps + 1
  /\ popUpHandle' = "open"
  /\ \E read \in {"resolved", "rejected"} :
        lastCall' = [NoCall EXCEPT !.op = "clipboardHasProseMirrorData", !.outcome = "returned", !.settled = read,
                                   !.text = IF read = "resolved" THEN clipboard ELSE <<>>,
                                   !.val = IF read = "resolved" THEN clipboardHasProseMirrorData(clipboard)
                                           ELSE JBool(FALSE)]
  /\ lastCopy' = NoCopyCall
  /\ lastPaste' = NoPaste
  /\ UNCHANGED <<runtime, sliceManager, calls>>
  /\ UNCHANGED <<viewVars, sliceVars, clipboard, copied, pending>>

NextClip ==
  \/ SetSelection
  \/ ClipboardChanged
  \/ CopySelectionRich
  \/ CopySelectionPlain
  \/ PasteFromClipboard
  \/ PasteReadRejected
  \/ PasteResume

SpecClip == InitClip /\ [][NextClip]_vars

\* What a click on the document lands in: an element inside a
\* .context-menu, one inside a .float-icon, or another
ClickTargets == {"context-menu", "float-icon", "outside"}

\* (variant: the target is not looked at)
ClickCloses_Anywhere(target, handle) == handle = "open"

\* The test of outsideClickHandler: a handle, and a target with no
\* .context-menu and no .float-icon around it
ClickCloses(target, handle) == handle = "open" /\ target \notin {"context-menu", "float-icon"}

\* (variant: closing the popup gives up the paste that waits)
OutsideClick_Cancels ==
  \E target \in ClickTargets :
     /\ IF ClickCloses(target, popUpHandle)
        THEN /\ ClosePopUp
             /\ pending' = FALSE
             /\ lastCall' = [NoCall EXCEPT !.op = "outsideClick", !.target = target, !.outcome = "closed"]
        ELSE /\ UNCHANGED <<popVars, pending>>
             /\ lastCall' = [NoCall EXCEPT !.op = "outsideClick", !.target = target, !.outcome = "returned"]
     /\ lastCopy' = NoCopyCall
     /\ lastPaste' = NoPaste
     /\ UNCHANGED <<runtime, sliceManager, calls>>
     /\ UNCHANGED <<viewVars, sliceVars, clipboard, copied>>

\* outsideClickHandler(e), the click listener of the document: the popup
\* the handle refers to is closed when the test holds
OutsideClick ==
  \E target \in ClickTargets :
     /\ IF ClickCloses(target, popUpHandle)
        THEN /\ ClosePopUp
             /\ lastCall' = [NoCall EXCEPT !.op = "outsideClick", !.target = target, !.outcome = "closed"]
        ELSE /\ UNCHANGED popVars
             /\ lastCall' = [NoCall EXCEPT !.op = "outsideClick", !.target = target, !.outcome = "returned"]
     /\ lastCopy' = NoCopyCall
     /\ lastPaste' = NoPaste
     /\ UNCHANGED <<runtime, sliceManager, calls>>
     /\ UNCHANGED <<viewVars, sliceVars, clipboard, copied, pending>>

\* The menu: popups are opened, and closed by the handlers of their items
NextPopUp ==
  \/ OpenFloatingMenu
  \/ ProbeResolved
  \/ CopySelectionRich
  \/ CopySelectionPlain
  \/ PasteFromClipboard
  \/ PasteReadRejected
  \/ PasteResume

\* The editor the menu is opened on: the clipboard holds one of the texts
InitPopUp ==
  /\ doc \in ClipDocs
  /\ sel \in TextSelections(doc)
  /\ decorations = getDecorations(doc)
  /\ lastApply = NoApply
  /\ docObjectId = "d1"
  /\ InitSliceManager
  /\ clipboard \in ProbeTexts
  /\ copied = NoCopy
  /\ pending = FALSE
  /\ lastPaste = NoPaste
  /\ popUpHandle = "null"
  /\ popUps = 0
  /\ probes = 0
  /\ lastCopy = NoCopyCall
  /\ InitRemote

SpecPopUp == InitPopUp /\ [][NextPopUp]_vars

\* ------------------------------------------------- remote collaborator
\* The most slices the cache grows to by the asynchronous operations
MaxCreated == 1

\* The operation can be called: no call of it waits
Callable(op) == calls[op].stage = "idle" /\ InFlight < MaxCalls

\* The call of op goes on to wait at stage, or ends
Waits(op, stage, arg, text) == calls' = [calls EXCEPT ![op] = [stage |-> stage, arg |-> arg, text |-> text]]

Ends(op) == calls' = [calls EXCEPT ![op] = IdleCall]

\* The record of a step of op made on the current state: the call (stage
\* "call") or the continuation after the promise awaited at stage settled
Step(op, stage, settled) ==
  [NoCall EXCEPT !.op = op, !.outcome = "returned", !.docBefore = doc, !.cacheBefore = docSlices,
                 !.stage = stage, !.settled = settled, !.arg = calls[op].arg, !.text = calls[op].text]

\* (variant: the failure leaves the function)
Caught_Escapes(c) == [c EXCEPT !.outcome = "rejected"]

\* catch (err) { console.error(..., err) }: the failure is logged and the
\* function goes on
Caught(c) == [c EXCEPT !.outcome = "returned", !.reported = TRUE]

\* (variant: the reference is requested for the slice handed to the remote)
RequestReference_OfArgument(c, val) ==
  [c EXCEPT !.inserted = @ + 1, !.insertedId = Get(c.arg, Key("id")), !.insertedSource = Get(c.arg, Key("source"))]

\* insertReference(view, val.id, val.source, name): the request made to the
\* referencing package
RequestReference(c, val) ==
  [c EXCEPT !.inserted = @ + 1, !.insertedId = Get(val, Key("id")), !.insertedSource = Get(val, Key("source"))]

\* A slice as the remote stores it
RemoteSlice ==
  JObj(<<Key("id"), Key("source"), Key("from")>>, <<JStr(<<"s9">>), JStr(<<"d1">>), JStr(<<"o1">>)>>)

\* What the promise of runtime.createSlice(arg) resolves with: nothing, the
\* slice it was handed, or the slice as stored
CreatedSlices(arg) == {JUndefined, RemoteSlice} \cup (IF arg.t = "object" THEN {arg} ELSE {})

\* Reading a property of v throws a TypeError
ReadThrows(v) == v.t \in {"undefined", "null"}

\* (variant: the method is called on the runtime without the test)
OptionalCall_Unguarded(rt) == IF rt = "absent" THEN "threw" ELSE "promise"

\* runtime?.method(...): undefined when the runtime is absent, else what
\* the method of the runtime returns
OptionalCall(rt) == IF rt = "absent" THEN "undefined" ELSE "promise"

\* The operations of the slice manager that go to the runtime
RuntimeMethods == {"getDocumentSlices", "createSliceViaDialog", "insertReference", "addInfoIcon", "addCitation"}

\* A step of an asynchronous operation that leaves the clipboard handlers'
\* state alone
CallStep ==
  /\ lastPaste' = NoPaste
  /\ lastCopy' = NoCopyCall
  /\ UNCHANGED <<clipboard, copied, pending, runtime, sliceManager>>

\* pasteAsReference(view, plugin) up to its await of readText
PasteAsReference ==
  /\ Callable("pasteAsReference")
  /\ Waits("pasteAsReference", "readText", JUndefined, <<>>)
  /\ lastCall' = [Step("pasteAsReference", "call", "none") EXCEPT !.outcome = "pending"]
  /\ CallStep
  /\ UNCHANGED <<viewVars, sliceVars, popVars>>

\* readText is rejected: the catch logs it, finally closes the popup
PasteAsReferenceReadRejected ==
  /\ calls["pasteAsReference"].stage = "readText"
  /\ Ends("pasteAsReference")
  /\ lastCall' = Caught(Step("pasteAsReference", "readText", "rejected"))
  /\ CallStep
  /\ ClosePopUp
  /\ UNCHANGED <<viewVars, sliceVars>>

\* readText resolves: the text is parsed and its sliceModel handed to
\* createSliceViaDialog. A text that does not parse, a null payload and a
\* plugin without slice manager end in the catch; a manager without runtime
\* returns undefined, and the function returns on it
PasteAsReferenceRead ==
  /\ calls["pasteAsReference"].stage = "readText"
  /\ \E parsed \in {JSONparse(clipboard)} :
     \E c \in {[Step("pasteAsReference", "readText", "resolved") EXCEPT !.text = clipboard]} :
        LET sliceModel == Get(parsed.v, Key("sliceModel"))
        IN IF parsed.threw \/ ReadThrows(parsed.v) \/ sliceManager = "absent" \/ OptionalCall(runtime) = "threw"
           THEN /\ Ends("pasteAsReference")
                /\ lastCall' = Caught(c)
                /\ ClosePopUp
           ELSE IF OptionalCall(runtime) = "undefined"
           THEN /\ Ends("pasteAsReference")
                /\ lastCall' = [c EXCEPT !.arg = sliceModel]
                /\ ClosePopUp
           ELSE /\ Waits("pasteAsReference", "createSlice", sliceModel, clipboard)
                /\ lastCall' = [c EXCEPT !.outcome = "pending", !.attempted = TRUE, !.arg = sliceModel]
                /\ UNCHANGED popVars
  /\ CallStep
  /\ UNCHANGED <<viewVars, sliceVars>>

\* The promise of createSlice resolves with val: without val the function
\* returns, with one it requests the reference; finally closes the popup
PasteAsReferenceCreated ==
  /\ calls["pasteAsReference"].stage = "createSlice"
  /\ \E val \in CreatedSlices(calls["pasteAsReference"].arg) :
     \E c \in {[Step("pasteAsReference", "createSlice", "resolved") EXCEPT !.val = val]} :
        lastCall' = IF Falsy(val) THEN c ELSE RequestReference(c, val)
  /\ Ends("pasteAsReference")
  /\ CallStep
  /\ ClosePopUp
  /\ UNCHANGED <<viewVars, sliceVars>>

\* The promise of createSlice is rejected: the catch logs it, finally closes
\* the popup
PasteAsReferenceCreateRejected ==
  /\ calls["pasteAsReference"].stage = "createSlice"
  /\ lastCall' = Caught(Step("pasteAsReference", "createSlice", "rejected"))
  /\ Ends("pasteAsReference")
  /\ CallStep
  /\ ClosePopUp
  /\ UNCHANGED <<viewVars, sliceVars>>

\* A chunk of a string value, NullId for a value that is no string
LastChunk(v) == IF v.t = "string" /\ v.s # <<>> THEN v.s[Len(v.s)] ELSE NullId

\* The slice the cache holds for the value the remote resolved with, as
\* far as the slice manager reads it
CachedSlice(val) ==
  SliceModel(LastChunk(Get(val, Key("id"))), LastChunk(Get(val, Key("source"))), LastChunk(Get(val, Key("from"))))

\* createNewSlice(view): the slice object is built and handed to
\* createSliceViaDialog, and then is called on what that returns. Without
\* slice manager, and without runtime, that is a TypeError, which nothing
\* catches
CreateNewSlice ==
  /\ Callable("createNewSlice")
  /\ \E uuid \in UUIDs, today \in Dates :
     \E sliceModel \in {SliceModelToJSON(createSliceObject(doc, sel, docObjectId, uuid, today))} :
     \E c \in {[Step("createNewSlice", "call", "none") EXCEPT !.arg = sliceModel]} :
        IF sliceManager = "absent" \/ OptionalCall(runtime) # "promise"
        THEN /\ lastCall' = [c EXCEPT !.outcome = "threw"]
             /\ UNCHANGED calls
        ELSE /\ lastCall' = [c EXCEPT !.outcome = "pending", !.attempted = TRUE]
             /\ Waits("createNewSlice", "createSlice", sliceModel, <<>>)
  /\ CallStep
  /\ UNCHANGED <<viewVars, sliceVars, popVars>>

\* (variant: changeAttribute runs first, and val goes to the cache after
\* it; an exception of the dispatch skips the push)
CreateNewSliceCreated_FlagFirst ==
  /\ calls["createNewSlice"].stage = "createSlice"
  /\ Len(docSlices) < MaxCreated
  /\ \E val \in CreatedSlices(calls["createNewSlice"].arg) :
     \E tr \in {Transaction(changeAttribute(doc, sel), "absent", FALSE, sel)} :
     \E c \in {[Step("createNewSlice", "createSlice", "resolved") EXCEPT !.val = val, !.dispatches = 1]} :
        /\ Dispatch(tr)
        /\ docSlices' = IF DispatchThrows(tr) THEN docSlices ELSE addSliceToList(CachedSlice(val), docSlices)
        /\ lastCall' = IF DispatchThrows(tr) THEN Caught(c) ELSE c
  /\ Ends("createNewSlice")
  /\ CallStep
  /\ UNCHANGED <<docObjectId, otherSlices, lastSliceOp, held, popVars>>

\* The promise of createSlice resolves with val: val goes to the cache,
\* and then changeAttribute dispatches its transaction; an exception of
\* the dispatch is logged by the catch of the chain, the push done
CreateNewSliceCreated ==
  /\ calls["createNewSlice"].stage = "createSlice"
  /\ Len(docSlices) < MaxCreated
  /\ \E val \in CreatedSlices(calls["createNewSlice"].arg) :
     \E tr \in {Transaction(changeAttribute(doc, sel), "absent", FALSE, sel)} :
     \E c \in {[Step("createNewSlice", "createSlice", "resolved") EXCEPT !.val = val, !.dispatches = 1]} :
        /\ docSlices' = addSliceToList(CachedSlice(val), docSlices)
        /\ Dispatch(tr)
        /\ lastCall' = IF DispatchThrows(tr) THEN Caught(c) ELSE c
  /\ Ends("createNewSlice")
  /\ CallStep
  /\ UNCHANGED <<docObjectId, otherSlices, lastSliceOp, held, popVars>>

\* (variant: the slice handed to the remote is cached before the remote
\* answers, and stays cached when it refuses)
CreateNewSliceCreateRejected_Cached ==
  /\ calls["createNewSlice"].stage = "createSlice"
  /\ Len(docSlices) < MaxCreated
  /\ docSlices' = addSliceToList(CachedSlice(calls["createNewSlice"].arg), docSlices)
  /\ lastCall' = Caught(Step("createNewSlice", "createSlice", "rejected"))
  /\ Ends("createNewSlice")
  /\ CallStep
  /\ UNCHANGED <<viewVars, docObjectId, otherSlices, lastSliceOp, held, popVars>>

\* The promise of createSlice is rejected: the catch of the chain logs it
CreateNewSliceCreateRejected ==
  /\ calls["createNewSlice"].stage = "createSlice"
  /\ lastCall' = Caught(Step("createNewSlice", "createSlice", "rejected"))
  /\ Ends("createNewSlice")
  /\ CallStep
  /\ UNCHANGED <<viewVars, sliceVars, popVars>>

\* showReferences(view): then is called on what the manager's
\* insertReference returns; the TypeError of a missing manager or runtime
\* rejects the promise the async function returns
ShowReferences ==
  /\ Callable("showReferences")
  /\ \E c \in {Step("showReferences", "call", "none")} :
        IF sliceManager = "absent" \/ OptionalCall(runtime) # "promise"
        THEN /\ lastCall' = [c EXCEPT !.outcome = "rejected"]
             /\ UNCHANGED calls
        ELSE /\ lastCall' = [c EXCEPT !.outcome = "pending"]
             /\ Waits("showReferences", "insertReference", JUndefined, <<>>)
  /\ CallStep
  /\ UNCHANGED <<viewVars, sliceVars, popVars>>

\* The promise of the runtime's insertReference resolves with val: the
\* reference is requested; reading val.id of no value throws, which the
\* catch of the chain logs
ShowReferencesResolved ==
  /\ calls["showReferences"].stage = "insertReference"
  /\ \E val \in {JUndefined, RemoteSlice} :
     \E c \in {[Step("showReferences", "insertReference", "resolved") EXCEPT !.val = val]} :
        lastCall' = IF ReadThrows(val) THEN Caught(c) ELSE RequestReference(c, val)
  /\ Ends("showReferences")
  /\ CallStep
  /\ UNCHANGED <<viewVars, sliceVars, popVars>>

ShowReferencesRejected ==
  /\ calls["showReferences"].stage = "insertReference"
  /\ lastCall' = Caught(Step("showReferences", "insertReference", "rejected"))
  /\ Ends("showReferences")
  /\ CallStep
  /\ UNCHANGED <<viewVars, sliceVars, popVars>>

\* getDocSlices(view) up to its await: without slice manager every call
\* of the body is skipped; a manager without runtime returns undefined, and
\* setSlices(undefined, state) throws in slices.filter, which the catch logs
GetDocSlices ==
  /\ Callable("getDocSlices")
  /\ \E c \in {Step("getDocSlices", "call", "none")} :
        IF sliceManager = "absent"
        THEN lastCall' = c /\ UNCHANGED calls
        ELSE IF OptionalCall(runtime) # "promise"
        THEN lastCall' = Caught(c) /\ UNCHANGED calls
        ELSE /\ lastCall' = [c EXCEPT !.outcome = "pending"]
             /\ Waits("getDocSlices", "retrieveSlices", JUndefined, <<>>)
  /\ CallStep
  /\ UNCHANGED <<viewVars, sliceVars, popVars>>

\* The lists the promise of retrieveSlices resolves with
RetrievedLists == {<<>>} \cup {<<a>> : a \in SliceModels}

\* retrieveSlices resolves with a list: setSlices adds its slices of this
\* document to the cache and setSliceAttrs dispatches its transaction; an
\* exception of the dispatch is logged by the catch
GetDocSlicesRetrieved ==
  /\ calls["getDocSlices"].stage = "retrieveSlices"
  /\ \E slices \in RetrievedLists :
     \E cache \in {setSlices(slices, docObjectId, docSlices)} :
     \E tr \in {Transaction(setSliceAttrsSteps(doc, cache), "absent", FALSE, sel)} :
     \E c \in {[Step("getDocSlices", "retrieveSlices", "resolved") EXCEPT !.dispatches = 1, !.fetched = slices]} :
        /\ Len(cache) <= MaxCreated
        /\ docSlices' = cache
        /\ Dispatch(tr)
        /\ lastCall' = IF DispatchThrows(tr) THEN Caught(c) ELSE c
  /\ held' = Reassigned(held, docSlices)
  /\ Ends("getDocSlices")
  /\ CallStep
  /\ UNCHANGED <<docObjectId, otherSlices, lastSliceOp, popVars>>

\* retrieveSlices is rejected, or resolves with no list: the catch logs it
GetDocSlicesFailed ==
  /\ calls["getDocSlices"].stage = "retrieveSlices"
  /\ \E settled \in {"rejected", "resolved"} :
        lastCall' = Caught(Step("getDocSlices", "retrieveSlices", settled))
  /\ Ends("getDocSlices")
  /\ CallStep
  /\ UNCHANGED <<viewVars, sliceVars, popVars>>

\* pasteAsPlainText(view, plugin) up to its await of readText
PasteAsPlainText ==
  /\ Callable("pasteAsPlainText")
  /\ Waits("pasteAsPlainText", "readText", JUndefined, <<>>)
  /\ lastCall' = [Step("pasteAsPlainText", "call", "none") EXCEPT !.outcome = "pending"]
  /\ CallStep
  /\ UNCHANGED <<viewVars, sliceVars, popVars>>

\* readText is rejected: the catch logs it, the popup is closed
PasteAsPlainTextReadRejected ==
  /\ calls["pasteAsPlainText"].stage = "readText"
  /\ lastCall' = Caught(Step("pasteAsPlainText", "readText", "rejected"))
  /\ Ends("pasteAsPlainText")
  /\ CallStep
  /\ ClosePopUp
  /\ UNCHANGED <<viewVars, sliceVars>>

\* readText resolves: the plain text is inserted over the selection by one
\* dispatch; an exception of the dispatch is logged; the popup is closed
PasteAsPlainTextRead ==
  /\ calls["pasteAsPlainText"].stage = "readText"
  /\ \E plain \in {plainText(clipboard)} :
     \E steps \in {insertText(doc, plain, sel.from, sel.to)} :
     \E trDoc \in {StepsApply(doc, steps)} :
     \E end \in {Near(trDoc, MapThrough(sel.to, 1, steps))} :
     \E tr \in {scrollIntoView(Transaction(steps, "absent", TRUE, [from |-> end, to |-> end]))} :
     \E c \in {[Step("pasteAsPlainText", "readText", "resolved")
                 EXCEPT !.text = clipboard, !.dispatches = 1, !.plainText = plain]} :
        /\ DispatchThrows(tr) \/ Len(trDoc) <= MaxClipLen
        /\ Dispatch(tr)
        /\ lastCall' = IF DispatchThrows(tr) THEN Caught(c) ELSE c
  /\ Ends("pasteAsPlainText")
  /\ CallStep
  /\ ClosePopUp
  /\ UNCHANGED sliceVars

\* A call of one of the slice manager's operations that go to the runtime
RuntimeMethodCalled ==
  /\ sliceManager = "present"
  /\ \E method \in RuntimeMethods :
        lastCall' = [NoCall EXCEPT !.op = method, !.result = OptionalCall(runtime),
                                   !.outcome = IF OptionalCall(runtime) = "threw" THEN "threw" ELSE "returned",
                                   !.docBefore = doc, !.cacheBefore = docSlices]
  /\ CallStep
  /\ UNCHANGED <<viewVars, sliceVars, popVars, calls>>

\* How the plugin is set up: with a runtime, with a slice manager created
\* without runtime, or with its sliceManager field cleared
Setups ==
  { [runtime |-> "present", sliceManager |-> "present"],
    [runtime |-> "absent", sliceManager |-> "present"],
    [runtime |-> "absent", sliceManager |-> "absent"] }

\* The selections the operations are called on: a cursor at the start of
\* the text, and the text from there to its end
CallSelections(d) ==
  {AtStart(d), [from |-> Min(TextPositions(d)), to |-> Max(TextPositions(d))]}

\* The text copySelectionRich wrote for the whole text of d
Envelope(d, source) ==
  LET s == [from |-> Min(TextPositions(d)), to |-> Max(TextPositions(d))]
  IN JSONstringify(sliceJSON(SelectionContent(d, s), createSliceObject(d, s, source, "u1", "2024-05-01")))

\* What the clipboard holds when the operations are called: nothing, a text
\* of another application, or a text copySelectionRich wrote
CallTexts(d, source) == {<<>>, NullText, BrokenText, FortyTwoText, FooText, Envelope(d, source)}

\* The editor the asynchronous operations are called on, from the menu: the
\* popup is open, the document has an objectId or none
InitCalls ==
  /\ doc \in ClipDocs
  /\ sel \in CallSelections(doc)
  /\ decorations = getDecorations(doc)
  /\ lastApply = NoApply
  /\ docObjectId \in {"d1", NullId}
  /\ InitSliceManager
  /\ clipboard \in CallTexts(doc, docObjectId)
  /\ copied = NoCopy
  /\ pending = FALSE
  /\ lastPaste = NoPaste
  /\ popUpHandle = "open"
  /\ popUps = 1
  /\ probes = 0
  /\ lastCopy = NoCopyCall
  /\ \E setup \in Setups : runtime = setup.runtime /\ sliceManager = setup.sliceManager
  /\ calls = [op \in Operations |-> IdleCall]
  /\ lastCall = NoCall

NextCalls ==
  \/ PasteAsReference
  \/ PasteAsReferenceReadRejected
  \/ PasteAsReferenceRead
  \/ PasteAsReferenceCreated
  \/ PasteAsReferenceCreateRejected
  \/ CreateNewSlice
  \/ CreateNewSliceCreated
  \/ CreateNewSliceCreateRejected
  \/ ShowReferences
  \/ ShowReferencesResolved
  \/ ShowReferencesRejected
  \/ GetDocSlices
  \/ GetDocSlicesRetrieved
  \/ GetDocSlicesFailed
  \/ PasteAsPlainText
  \/ PasteAsPlainTextReadRejected
  \/ PasteAsPlainTextRead
  \/ PasteFromClipboard
  \/ PasteReadRejected
  \/ PasteResume
  \/ SetSelection
  \/ RuntimeMethodCalled

SpecCalls == InitCalls /\ [][NextCalls]_vars

\* The editor a paste is made in: the clipboard holds a text of another
\* application or what copySelectionRich wrote for the text of the document
InitPaste ==
  /\ doc \in ClipDocs
  /\ sel \in TextSelections(doc)
  /\ decorations = getDecorations(doc)
  /\ lastApply = NoApply
  /\ docObjectId = "d1"
  /\ InitSliceManager
  /\ clipboard \in {HiText, Envelope(doc, "d1")}
  /\ copied = NoCopy
  /\ pending = FALSE
  /\ lastPaste = NoPaste
  /\ popUpHandle = "null"
  /\ popUps = 0
  /\ probes = 0
  /\ lastCopy = NoCopyCall
  /\ InitRemote

\* A paste from the menu, while the user clicks and moves the selection
NextPaste ==
  \/ OpenFloatingMenu
  \/ ProbeResolved
  \/ OutsideClick
  \/ SetSelection
  \/ PasteFromClipboard
  \/ PasteReadRejected
  \/ PasteResume

SpecPaste == InitPaste /\ [][NextPaste]_vars

\* The editor the menu is opened in, with the plugin set up in every way
InitMenu ==
  /\ doc \in ClipDocs
  /\ sel \in CallSelections(doc)
  /\ decorations = getDecorations(doc)
  /\ lastApply = NoApply
  /\ docObjectId = "d1"
  /\ InitSliceManager
  /\ clipboard \in {HiText, Envelope(doc, "d1")}
  /\ copied = NoCopy
  /\ pending = FALSE
  /\ lastPaste = NoPaste
  /\ popUpHandle = "null"
  /\ popUps = 0
  /\ probes = 0
  /\ lastCopy = NoCopyCall
  /\ \E setup \in Setups : runtime = setup.runtime /\ sliceManager = setup.sliceManager
  /\ calls = [op \in Operations |-> IdleCall]
  /\ lastCall = NoCall

\* The menu is opened and one of its paste items is chosen
NextMenu ==
  \/ OpenFloatingMenu
  \/ ProbeResolved
  \/ PasteFromClipboard
  \/ PasteReadRejected
  \/ PasteResume
  \/ PasteAsReference
  \/ PasteAsReferenceReadRejected
  \/ PasteAsReferenceRead
  \/ PasteAsReferenceCreated
  \/ PasteAsReferenceCreateRejected
  \/ PasteAsPlainText
  \/ PasteAsPlainTextReadRejected
  \/ PasteAsPlainTextRead

SpecMenu == InitMenu /\ [][NextMenu]_vars

\* The documents a view is created on
LoadDocs == ClipDocs \cup SliceDocs

\* A view is created: view(view) of the plugin is about to call
\* getDocSlices on a plugin with a fresh slice manager
InitLoad ==
  /\ doc \in LoadDocs
  /\ sel = AtStart(doc)
  /\ decorations = getDecorations(doc)
  /\ lastApply = NoApply
  /\ docObjectId \in DocObjectIds
  /\ InitSliceManager
  /\ InitClipboard
  /\ \E setup \in Setups : runtime = setup.runtime /\ sliceManager = setup.sliceManager
  /\ calls = [op \in Operations |-> IdleCall]
  /\ lastCall = NoCall

NextLoad ==
  \/ GetDocSlices
  \/ GetDocSlicesRetrieved
  \/ GetDocSlicesFailed

\* The continuation of getDocSlices runs once the promise it awaits is
\* settled, and the promise is settled
SpecLoad ==
  /\ InitLoad
  /\ [][NextLoad]_vars
  /\ WF_vars(GetDocSlicesFailed \/ GetDocSlicesRetrieved)

\* --------------------------------------------------------- slice object
Paragraph(oid, text) == <<Open("paragraph", oid, NullDeco)>> \o Chars(text) \o <<Close>>

\* One paragraph with the text Hello World
HelloDoc == Paragraph("obj1", <<"H", "e", "l", "l", "o", " ", "W", "o", "r", "l", "d">>)

\* That paragraph before a heading and a paragraph
HelloFirstDoc ==
  HelloDoc \o <<Open("heading", "o2", NullDeco), Char("x"), Close>> \o Paragraph("o3", <<"y">>)

\* One paragraph with a text of 21 characters
LongDoc ==
  Paragraph("o1", <<"a", "b", "c", "d", "e", "f", "g", "h", "i", "j", "k", "l", "m", "n", "o", "p", "q", "r",
                    "s", "t", "u">>)

\* Paragraphs with and without objectId, a heading with one, an empty
\* paragraph in a blockquote, a paragraph of a space
MixedDoc ==
  Paragraph("o1", <<"a">>) \o <<Open("heading", "o2", NullDeco), Char("b"), Close>> \o Paragraph(NullId, <<"c">>)
  \o <<Open("blockquote", NullId, NullDeco)>> \o Paragraph("o3", <<>>) \o <<Close>>
  \o Paragraph("o4", <<" ">>)

\* Documents createSliceObject is called on
ObjectDocs == {HelloDoc, HelloFirstDoc, LongDoc, MixedDoc}

InitObject ==
  /\ doc \in ObjectDocs
  /\ sel \in TextSelections(doc)
  /\ decorations = getDecorations(doc)
  /\ lastApply = NoApply
  /\ docObjectId = "doc-x"
  /\ InitSliceManager
  /\ InitClipboard
  /\ InitRemote

\* createSliceObject(editorView) on the state of the view
CreateSliceObject ==
  /\ \E uuid \in UUIDs, today \in Dates :
        lastCopy' = [NoCopyCall EXCEPT !.call = "createSliceObject", !.before = clipboard, !.doc = doc, !.sel = sel,
                                       !.source = docObjectId, !.today = today,
                                       !.sliceModel = createSliceObject(doc, sel, docObjectId, uuid, today)]
  /\ lastPaste' = NoPaste
  /\ lastCall' = NoCall
  /\ UNCHANGED <<viewVars, sliceVars, clipboard, copied, pending, popVars, runtime, sliceManager, calls>>

NextObject == CreateSliceObject \/ CopySelectionRich

SpecObject == InitObject /\ [][NextObject]_vars

\* ------------------------------------------------ properties, C1 to C5
\* The last call of init or apply made a full scan
Scanned == lastApply.outcome \in {"init", "rescan"}

\* The last call of apply returned or threw
Applied == lastApply.outcome # "init"

\* C1: after init and after every applied transaction the stored decoration
\* set equals the set a full scan of the current document produces.
Inv_C1_StoredEqualsScan == decorations = getDecorations(doc)

\* a transaction was applied with a rescan that found markers and a cluster
Wit_C1_RescanFoundMarkers ==
  /\ lastApply.outcome = "rescan"
  /\ \E i \in 1..Len(decorations) : decorations[i].kind = "cluster"

\* C2: for every transaction with docChanged false, apply makes no rescan
\* and returns the prior set remapped through the transaction's mapping (a
\* transaction without steps has an empty mapping, so every position maps
\* to itself).
Cex_C2_NoDocChangeReturnsMapped ==
  (Applied /\ ~lastApply.docChanged) =>
     (lastApply.outcome = "mapped" /\ decorations = lastApply.prev)

\* C3: for every doc-changing transaction, apply remaps and then decides: a
\* replace, replace-around or node-attribute-update step, or the forceRescan
\* meta, gives the full scan of the new document; otherwise the result is
\* the remapped prior set (the steps left then, mark steps, have empty
\* maps) and no rescan is made.
Cex_C3_DocChangeRescanDecision ==
  (Applied /\ lastApply.docChanged) =>
     IF lastApply.contentStep \/ lastApply.attrStep \/ lastApply.forceRescan = "true"
     THEN lastApply.outcome = "rescan" /\ decorations = getDecorations(doc)
     ELSE lastApply.outcome = "kept" /\ decorations = lastApply.prev

\* Open tokens of paragraphs: all of them, and the children of the document
AllParagraphs(d) == {i \in 1..Len(d) : IsOpen(d[i]) /\ d[i].type = "paragraph"}

TopParagraphs(d) == {i \in AllParagraphs(d) : DepthAt(d, i - 1) = 0}

Flagged(node) ==
  node.isDeco.present /\ (Truthy(node.isDeco.isSlice) \/ Truthy(node.isDeco.isTag) \/ Truthy(node.isDeco.isComment))

NoneFlagged(d) == \A i \in 1..Len(d) : IsOpen(d[i]) => ~Flagged(d[i])

DecosOf(kind, tokenIdx) == {j \in 1..Len(decorations) : decorations[j].kind = kind /\ decorations[j].pos = tokenIdx}

\* The scan of a document with no flagged node holds exactly one affordance
\* marker for each paragraph of the set P, at pos + 1 and tagged pos, and
\* nothing else.
OneMarkerPerParagraph(P) ==
  /\ Len(decorations) = Cardinality(P)
  /\ \A j \in 1..Len(decorations) : decorations[j].kind = "hamburger"
  /\ \A i \in P : \E j \in 1..Len(decorations) :
        /\ decorations[j].pos = i /\ decorations[j].dataPos = i - 1
        /\ DecosOf("hamburger", i) = {j}

GlyphRank(g) == IF g = "slice" THEN 1 ELSE IF g = "tag" THEN 2 ELSE 3

\* gs holds one glyph per true flag of the isDeco record, none twice, in
\* the order slice, tag, comment
GlyphsInOrder(gs, flags) ==
  /\ gs # <<>>
  /\ ("slice" \in {gs[a] : a \in 1..Len(gs)}) <=> (flags.isSlice = "true")
  /\ ("tag" \in {gs[a] : a \in 1..Len(gs)}) <=> (flags.isTag = "true")
  /\ ("comment" \in {gs[a] : a \in 1..Len(gs)}) <=> (flags.isComment = "true")
  /\ \A a \in 1..Len(gs) : gs[a] \in {"slice", "tag", "comment"}
  /\ \A a, b \in 1..Len(gs) : a < b => GlyphRank(gs[a]) < GlyphRank(gs[b])

\* For every paragraph of the set P: one cluster iff a flag is truthy, with
\* one glyph per true flag in the order slice, tag, comment, at the position
\* of the affordance marker and before it (side -1 against side 1).
ClusterIffFlagged(P) ==
  \A i \in P :
    /\ Cardinality(DecosOf("cluster", i)) = (IF Flagged(doc[i]) THEN 1 ELSE 0)
    /\ \A j \in DecosOf("cluster", i) :
          /\ GlyphsInOrder(decorations[j].glyphs, doc[i].isDeco)
          /\ \E h \in DecosOf("hamburger", i) : decorations[j].side < decorations[h].side

KthMatch(candidates, objectId, k) ==
  CHOOSE i \in 1..Len(candidates) :
     /\ candidates[i].source = objectId
     /\ Cardinality({j \in 1..i : candidates[j].source = objectId}) = k

\* C6: setSlices changes the cache to the old cache followed by exactly the
\* candidates whose source equals the document's objectId, in their original
\* relative order; after every setSlices and addSliceToList call the cache
\* still begins with the cache as it was before the call (its length never
\* decreases, no slice in it is removed or reordered).
Thm_C6_SetSlicesAppendsFiltered ==
  LET before == lastSliceOp.before
      cands == lastSliceOp.candidates
      added == Drop(docSlices, Len(before))
  IN /\ lastSliceOp.op \in {"setSlices", "addSliceToList"} =>
          /\ Len(docSlices) >= Len(before)
          /\ \A i \in 1..Len(before) : docSlices[i] = before[i]
     /\ lastSliceOp.op = "setSlices" =>
          /\ Len(added) = Cardinality({i \in 1..Len(cands) : cands[i].source = docObjectId})
          /\ \A k \in 1..Len(added) : added[k] = cands[KthMatch(cands, docObjectId, k)]

\* setSlices on a non-empty cache dropped the first of two candidates, a
\* slice of another document, and appended the second
Wit_C6_FilteredAppend ==
  /\ lastSliceOp.op = "setSlices"
  /\ lastSliceOp.before # <<>>
  /\ Len(lastSliceOp.candidates) = 2
  /\ lastSliceOp.candidates[1].source # docObjectId
  /\ Len(docSlices) = Len(lastSliceOp.before) + 1

\* C7: the transaction setSliceAttrs dispatches gives every node whose
\* objectId is the from of a cached slice isDeco.isSlice = true and keeps its
\* type, objectId and other isDeco flags; every other token of the document
\* is unchanged; the transaction is dispatched once, and once it is applied
\* the document of the view is the transaction's document.
Thm_C7_SetSliceAttrsMarksMatches ==
  lastSliceOp.op = "setSliceAttrs" =>
    LET b == lastSliceOp.docBefore
        t == lastSliceOp.trDoc
        froms == {lastSliceOp.before[j].from : j \in 1..Len(lastSliceOp.before)}
        matched == {i \in 1..Len(b) : IsOpen(b[i]) /\ b[i].objectId \in froms}
    IN /\ Len(t) = Len(b)
       /\ \A i \in matched :
             /\ t[i].isDeco.present /\ t[i].isDeco.isSlice = "true"
             /\ t[i].isDeco.isTag = b[i].isDeco.isTag
             /\ t[i].isDeco.isComment = b[i].isDeco.isComment
             /\ t[i].k = b[i].k /\ t[i].type = b[i].type /\ t[i].objectId = b[i].objectId
       /\ \A i \in (1..Len(b)) \ matched : t[i] = b[i]
       /\ lastApply.docChanged = (matched # {})
       /\ lastSliceOp.applied => doc = t
       /\ ~lastSliceOp.applied => doc = b

\* setSliceAttrs was applied to a document with a matching node that had the
\* tag flag and not the slice flag, and a node that matches no cached slice
Wit_C7_AppliedWithMatch ==
  /\ lastSliceOp.op = "setSliceAttrs"
  /\ lastSliceOp.applied
  /\ \E i \in 1..Len(doc) :
        /\ IsOpen(doc[i]) /\ doc[i].isDeco.isTag = "true" /\ doc[i].isDeco.isSlice = "true"
        /\ lastSliceOp.docBefore[i].isDeco.isSlice = "absent"
  /\ \E i \in 1..Len(doc) :
        /\ IsOpen(doc[i]) /\ doc[i].objectId # NullId
        /\ \A j \in 1..Len(docSlices) : docSlices[j].from # doc[i].objectId

\* ----------------------------------------------- properties, C8 to C10
\* The document d with the tokens put in place of the selection s
Spliced(d, s, tokens) == Take(d, s.from) \o tokens \o Drop(d, s.to)

\* The characters of the tokens, in order
TextOf(tokens) ==
  LET cs == SelectSeq(tokens, IsChar)
  IN [j \in 1..Len(cs) |-> cs[j].c]

\* The content of a slice without the tokens that open it at its start and
\* close it at its end
Interior(slice) == SubSeq(slice.content, slice.openStart + 1, Len(slice.content) - slice.openEnd)

\* The last step ended a pasteFromClipboard call that read the clipboard
Pasted == lastPaste.outcome = "dispatched"

\* C8: when pasteFromClipboard reads the text copySelectionRich wrote for a
\* non-empty selection S, the slice it reconstructs equals S's content, with
\* the same openStart and openEnd, whatever the sliceModel of the envelope;
\* the one transaction it dispatches puts that content in place of the
\* current selection, and the view's document is that transaction's document.
Thm_C8_RichCopyPasteRoundTrip ==
  (Pasted /\ lastPaste.copied.done) =>
     /\ lastPaste.kind = "slice"
     /\ lastPaste.slice.content = lastPaste.copied.slice.content
     /\ lastPaste.slice.openStart = lastPaste.copied.slice.openStart
     /\ lastPaste.slice.openEnd = lastPaste.copied.slice.openEnd
     /\ lastPaste.dispatches = 1
     /\ lastPaste.trDoc = Spliced(lastPaste.baseDoc, lastPaste.baseSel, Interior(lastPaste.copied.slice))
     /\ doc = lastPaste.trDoc

\* A copied slice was pasted at another place and the view applied it: the
\* document grew by the copied content
Wit_C8_PastedCopyApplied ==
  /\ Pasted
  /\ lastPaste.copied.done
  /\ lastPaste.applied
  /\ Len(doc) > Len(lastPaste.baseDoc)

\* C9: for a clipboard text that JSON.parse rejects, pasteFromClipboard
\* dispatches exactly one transaction, marked to scroll into view, whose
\* document has the text, character for character, in place of the current
\* selection; the call does not reject; the view's document is the
\* transaction's document when the dispatch went through and the document
\* as it was when it threw.
Thm_C9_NonJsonPastedVerbatim ==
  (Pasted /\ JSONparse(lastPaste.text).threw) =>
     /\ lastPaste.kind = "text"
     /\ lastPaste.dispatches = 1
     /\ lastPaste.tr.scrolledIntoView
     /\ ~lastPaste.rejected
     /\ TextOf(lastPaste.trDoc) = TextOf(Take(lastPaste.baseDoc, lastPaste.baseSel.from)) \o lastPaste.text
                                    \o TextOf(Drop(lastPaste.baseDoc, lastPaste.baseSel.to))
     /\ lastPaste.text # <<>> => lastPaste.trDoc = Spliced(lastPaste.baseDoc, lastPaste.baseSel, Chars(lastPaste.text))
     /\ lastPaste.applied => doc = lastPaste.trDoc
     /\ ~lastPaste.applied => doc = lastPaste.baseDoc

\* A text that is not JSON was pasted over a non-empty selection and the
\* view applied it
Wit_C9_NonJsonReplacedSelection ==
  /\ Pasted
  /\ JSONparse(lastPaste.text).threw
  /\ lastPaste.text # <<>>
  /\ lastPaste.baseSel.from # lastPaste.baseSel.to
  /\ lastPaste.applied
  /\ doc # lastPaste.baseDoc

\* C10: a clipboard text that is JSON without the shape of an envelope, 42
\* or {"foo":1}, is pasted as a text that is not JSON is: the transaction
\* puts its characters in place of the current selection.
Cex_C10_WrongShapePastedVerbatim ==
  (Pasted /\ lastPaste.text \in {FortyTwoText, FooText}) =>
     /\ lastPaste.kind = "text"
     /\ lastPaste.trDoc = Spliced(lastPaste.baseDoc, lastPaste.baseSel, Chars(lastPaste.text))

\* C20: a copy handler called on an empty selection (copySelectionRich) or
\* on a collapsed one (copySelectionPlain) calls no clipboard write and
\* leaves the clipboard as it was
Thm_C20_EmptySelectionCopiesNothing ==
  (lastCopy.call \in {"rich", "plain"} /\ lastCopy.sel.from = lastCopy.sel.to)
    => (~lastCopy.writeText /\ clipboard = lastCopy.before)

\* copySelectionRich ran on an empty selection over a filled clipboard
Wit_C20_RichCopyOnEmptySelection ==
  /\ lastCopy.call = "rich"
  /\ lastCopy.sel.from = lastCopy.sel.to
  /\ lastCopy.before # <<>>

\* ---------------------------------------------- properties, C11 to C16
\* The sliceModel of the payload pasteAsReference read, undefined when the
\* text does not parse or the payload has none
SliceModelOf(text) == Get(JSONparse(text).v, Key("sliceModel"))

\* The last step was the end of a call of op
Ended(op) == lastCall.op = op /\ lastCall.outcome # "pending"

\* C11: when the clipboard holds a payload with a sliceModel and the remote
\* createSlice is rejected, pasteAsReference reports the failure, requests
\* no reference insertion, dispatches no change of the document and does
\* not throw.
Thm_C11_RemoteRejectionReported ==
  (lastCall.op = "pasteAsReference" /\ lastCall.stage = "createSlice" /\ lastCall.settled = "rejected")
    => /\ lastCall.reported
       /\ lastCall.outcome = "returned"
       /\ lastCall.inserted = 0
       /\ lastCall.dispatches = 0
       /\ doc = lastCall.docBefore

\* createSlice was rejected for the sliceModel of a copied envelope
Wit_C11_RejectedForCopiedModel ==
  /\ lastCall.op = "pasteAsReference"
  /\ lastCall.stage = "createSlice"
  /\ lastCall.settled = "rejected"
  /\ SliceModelOf(lastCall.text).t = "object"
  /\ lastCall.arg = SliceModelOf(lastCall.text)

\* C12: a call of pasteAsReference requests a reference insertion at most
\* once, and only in the continuation of a createSlice that resolved with a
\* slice, with the id and the source of that slice.
Thm_C12_ReferenceOfCreatedSlice ==
  lastCall.op = "pasteAsReference"
    => /\ lastCall.inserted <= 1
       /\ lastCall.inserted = 1
            => /\ lastCall.stage = "createSlice"
               /\ lastCall.settled = "resolved"
               /\ lastCall.outcome = "returned"
               /\ ~Falsy(lastCall.val)
               /\ lastCall.insertedId = Get(lastCall.val, Key("id"))
               /\ lastCall.insertedSource = Get(lastCall.val, Key("source"))

\* The reference was requested for a slice the remote stored under an id
\* of its own
Wit_C12_ReferenceOfStoredSlice ==
  /\ lastCall.op = "pasteAsReference"
  /\ lastCall.inserted = 1
  /\ lastCall.arg.t = "object"
  /\ lastCall.insertedId # Get(lastCall.arg, Key("id"))
  /\ lastCall.insertedId = JStr(<<"s9">>)

\* C13: when the clipboard text pasteAsReference read does not parse, or the
\* parsed payload has no sliceModel, the failure is reported, the operation
\* aborts (no creation is attempted) and no reference is requested.
Cex_C13_NoSliceModelReported ==
  (lastCall.op = "pasteAsReference" /\ lastCall.stage \in {"readText", "createSlice"}
     /\ lastCall.settled = "resolved" /\ SliceModelOf(lastCall.text).t = "undefined")
    => /\ lastCall.stage = "readText"
       /\ lastCall.reported
       /\ ~lastCall.attempted
       /\ lastCall.inserted = 0

\* C14: when the plugin has no slice manager, or its slice manager was made
\* without runtime, pasteAsReference reports an error, attempts no creation
\* and requests no reference: it is never a silent no-op.
Cex_C14_NoRemoteReported ==
  (Ended("pasteAsReference") /\ (sliceManager = "absent" \/ runtime = "absent"))
    => /\ lastCall.reported
       /\ ~lastCall.attempted
       /\ lastCall.inserted = 0

\* C15: on a slice manager created without runtime, getDocumentSlices,
\* createSliceViaDialog, insertReference, addInfoIcon and addCitation
\* return undefined: none throws, and the cache of slices stays as it was.
Thm_C15_NoRuntimeReturnsUndefined ==
  (lastCall.op \in RuntimeMethods /\ runtime = "absent")
    => /\ lastCall.outcome = "returned"
       /\ lastCall.result = "undefined"
       /\ docSlices = lastCall.cacheBefore

\* createSliceViaDialog was called on a manager without runtime
Wit_C15_CreateWithoutRuntime ==
  /\ lastCall.op = "createSliceViaDialog"
  /\ runtime = "absent"
  /\ sliceManager = "present"

\* C16: no failure leaves createNewSlice, showReferences, getDocSlices,
\* pasteFromClipboard, pasteAsReference or pasteAsPlainText: when the
\* clipboard read or the remote call is rejected, or the runtime is absent,
\* none of them throws or returns a rejected promise, and the failure is
\* caught and reported.
Cex_C16_NoFailureEscapes ==
  /\ lastCall.op \in Operations
       => /\ lastCall.outcome \notin {"threw", "rejected"}
          /\ lastCall.settled = "rejected" => lastCall.reported
          /\ (lastCall.stage = "call" /\ runtime = "absent" /\ sliceManager = "present"
                /\ lastCall.op \in {"createNewSlice", "showReferences", "getDocSlices"}) => lastCall.reported
  /\ lastPaste.outcome # "none" => ~lastPaste.rejected

\* C19: every slice model handed to the remote createSlice, by
\* createNewSlice or by pasteAsReference, has a source that is a non-empty
\* string, whatever the objectId of the document is.
Cex_C19_SourceNeverEmpty ==
  lastCall.attempted
    => /\ lastCall.arg.t = "object"
       /\ Get(lastCall.arg, Key("source")).t = "string"
       /\ Get(lastCall.arg, Key("source")).s # <<>>

\* ------------------------------------------------- properties, C17, C18
\* The last step built a slice model
Built == lastCopy.call = "createSliceObject" \/ (lastCopy.call = "rich" /\ ~lastCopy.empty)

\* The open tokens of the paragraphs in the block range of the selection of
\* the last step (from the textblock around its start to the one around its
\* end) that satisfy Has
RangeParagraphs(Has(_)) ==
  LET d == lastCopy.doc
  IN {i \in InnerStart(d, lastCopy.sel.from)..InnerStart(d, lastCopy.sel.to) :
        IsOpen(d[i]) /\ d[i].type = "paragraph" /\ Has(i)}

\* The k-th of a set of indexes
Kth(S, k) == CHOOSE i \in S : Cardinality({j \in S : j < i}) = k - 1

HasObjectId(i) == lastCopy.doc[i].objectId # NullId

HasText(i) == \E j \in 1..Len(TextContent(lastCopy.doc, i)) : TextContent(lastCopy.doc, i)[j] # " "

\* C17: in every slice model createSliceObject builds, ids lists in document
\* order the objectId of every paragraph of the selection's block range that
\* has one; from is the first and to the last of ids, and both are the empty
\* string when ids is empty.
Thm_C17_IdsOfRangeParagraphs ==
  Built =>
    LET m == lastCopy.sliceModel
        S == RangeParagraphs(HasObjectId)
    IN /\ m.ids = [k \in 1..Cardinality(S) |-> <<lastCopy.doc[Kth(S, k)].objectId>>]
       /\ m.ids # <<>> => m.from = m.ids[1] /\ m.to = m.ids[Len(m.ids)]
       /\ m.ids = <<>> => m.from = <<>> /\ m.to = <<>>

\* A model built over a heading with objectId and a paragraph without, with
\* two ids
Wit_C17_TwoOfFourBlocks ==
  /\ lastCopy.call = "createSliceObject"
  /\ lastCopy.doc = MixedDoc
  /\ lastCopy.sliceModel.ids = << <<"o1">>, <<"o3">> >>

\* C18: copySelectionRich over a selection in the paragraph Hello World
\* with objectId obj1, in a document with objectId doc-x, writes an envelope
\* whose sliceModel has source doc-x, from and to obj1, ids [obj1], an id
\* that starts with the instance prefix, and as name the first 20
\* characters of the first paragraph text that is not blank (Untitled when
\* there is none), " - " and the date.
Thm_C18_HelloWorldEnvelope ==
  (lastCopy.call = "rich" /\ ~lastCopy.empty /\ clipboard # lastCopy.before)
    => LET m == lastCopy.sliceModel
           d == lastCopy.doc
           S == RangeParagraphs(HasText)
           text == IF S = {} THEN <<"Untitled">> ELSE TextContent(d, Kth(S, 1))
       IN /\ m.name = Take(text, Min({Len(text), 20})) \o <<" - ", lastCopy.today>>
          /\ m.id[1] = InstanceUrl
          /\ clipboard = JSONstringify(sliceJSON(SelectionContent(d, lastCopy.sel), m))
          /\ (d = HelloDoc \/ (d = HelloFirstDoc /\ lastCopy.sel.to < Len(HelloDoc)))
                => \A written \in {SliceModelOf(clipboard)} :
                      /\ Get(written, Key("source")) = JStr(<<"doc-x">>)
                      /\ Get(written, Key("from")) = JStr(<<"obj1">>)
                      /\ Get(written, Key("to")) = JStr(<<"obj1">>)
                      /\ Get(written, Key("ids")) = JArr(<<JStr(<<"obj1">>)>>)
                      /\ Get(written, Key("id")).s[1] = InstanceUrl
                      /\ Get(written, Key("name")).s
                           = <<"H", "e", "l", "l", "o", " ", "W", "o", "r", "l", "d", " - ", lastCopy.today>>

\* The envelope of a selection in the paragraph Hello World was written
Wit_C18_HelloWorldCopied ==
  /\ lastCopy.call = "rich"
  /\ lastCopy.doc = HelloFirstDoc
  /\ lastCopy.sel = [from |-> 1, to |-> 12]
  /\ clipboard # <<>>

\* ---------------------------------------------- properties, C21 to C30
\* The text of the nodes of a fragment, a line feed between two of them
RECURSIVE JoinedText(_)
JoinedText(tokens) ==
  IF tokens = <<>> THEN <<>>
  ELSE LET e == IF IsChar(tokens[1]) THEN RunLen(tokens) ELSE NodeEnd(tokens, 1)
           text == SelectSeq(Take(tokens, e), IsChar)
       IN [j \in 1..Len(text) |-> text[j].c]
          \o (IF e = Len(tokens) THEN <<>> ELSE <<"\n">> \o JoinedText(Drop(tokens, e)))

\* C21: pasteAsPlainText inserts, for a clipboard text that parses as a
\* structural envelope, the texts of the parsed blocks with one line feed
\* between two blocks, and for every other text the clipboard text as it is.
Cex_C21_PlainTextOfEnvelopeOrVerbatim ==
  (lastCall.op = "pasteAsPlainText" /\ lastCall.stage = "readText" /\ lastCall.settled = "resolved")
    => lastCall.plainText
         = IF clipboardHasProseMirrorData(lastCall.text).b
           THEN JoinedText(SliceFromJSON(JSONparse(lastCall.text).v).slice.content)
           ELSE lastCall.text

\* The text is JSON of an object whose content is an array or an object with
\* a type property
HasContentShape(text) ==
  LET parsed == JSONparse(text)
      content == Get(parsed.v, Key("content"))
  IN /\ ~parsed.threw
     /\ parsed.v.t = "object"
     /\ \/ content.t = "array"
        \/ content.t = "object" /\ \E i \in 1..Len(content.k) : content.k[i] = Key("type")

Cex_C23_AtMostOnePopUp ==
  /\ popUps <= 1
  /\ popUpHandle = "open" <=> popUps = 1

\* C24: when the remote call is rejected, the local state is left as it
\* was: after a rejected createSlice of createNewSlice the cache and the
\* document (so every node's attributes) are those of before, and after a
\* rejected retrieveSlices of getDocSlices the cache is that of before and
\* no transaction was dispatched.
Thm_C24_RejectionMutatesNothing ==
  (lastCall.op \in {"createNewSlice", "getDocSlices"} /\ lastCall.settled = "rejected")
    => /\ docSlices = lastCall.cacheBefore
       /\ doc = lastCall.docBefore
       /\ lastCall.dispatches = 0

\* A createSlice was rejected while the cache held a slice created before
Wit_C24_RejectedWithCachedSlice ==
  /\ lastCall.op = "createNewSlice"
  /\ lastCall.settled = "rejected"
  /\ lastCall.reported
  /\ lastCall.cacheBefore # <<>>

\* C25: when the clipboard read is rejected, pasteFromClipboard,
\* pasteAsPlainText and pasteAsReference each log the failure and return
\* without throwing and without dispatching: the document and the selection
\* are those of before.
Thm_C25_ReadRejectionAborts ==
  [][ /\ (/\ lastCall'.op \in {"pasteAsPlainText", "pasteAsReference"}
          /\ lastCall'.stage = "readText"
          /\ lastCall'.settled = "rejected")
        => /\ lastCall'.reported
           /\ lastCall'.outcome = "returned"
           /\ lastCall'.dispatches = 0
           /\ lastCall'.inserted = 0
           /\ UNCHANGED <<doc, sel, lastApply>>
      /\ lastPaste'.outcome = "readFailed"
        => /\ ~lastPaste'.rejected
           /\ lastPaste'.dispatches = 0
           /\ UNCHANGED <<doc, sel, lastApply>> ]_vars

\* The read of pasteAsPlainText was rejected while a text was selected
Wit_C25_PlainTextReadRejected ==
  /\ lastCall.op = "pasteAsPlainText"
  /\ lastCall.stage = "readText"
  /\ lastCall.settled = "rejected"
  /\ sel.from < sel.to
  /\ doc = lastCall.docBefore

\* C26: when the createSlice of createNewSlice resolves with a slice, the
\* node that gets isDeco.isSlice = true is the node whose objectId is the
\* slice's from, looked up in the document of that moment, wherever the
\* selection then is; no other node is changed.
Cex_C26_FlagsNodeOfFrom ==
  \A from \in {LastChunk(Get(lastCall.val, Key("from")))} :
     (/\ lastCall.op = "createNewSlice"
      /\ lastCall.stage = "createSlice"
      /\ lastCall.settled = "resolved"
      /\ from # NullId
      /\ \E i \in DOMAIN lastCall.docBefore : IsOpen(lastCall.docBefore[i]) /\ lastCall.docBefore[i].objectId = from)
       => /\ Len(doc) = Len(lastCall.docBefore)
          /\ \A i \in DOMAIN doc :
                IF IsOpen(lastCall.docBefore[i]) /\ lastCall.docBefore[i].objectId = from
                THEN doc[i] = [lastCall.docBefore[i] EXCEPT !.isDeco = SliceAttrs(lastCall.docBefore[i])]
                ELSE doc[i] = lastCall.docBefore[i]

\* C27: getDocSlices returns the cache itself: a slice pushed onto a list
\* that getDocSlices or addSliceToList returned earlier is in what
\* getDocSlices returns afterwards, also when setSlices was called in
\* between.
Cex_C27_PushReachesCache ==
  lastSliceOp.op = "push" => docSlices = Append(lastSliceOp.before, lastSliceOp.candidates[1])

\* C28: addSliceToList(slice) puts exactly that slice at the end of the
\* cache, whatever its source is, and returns the cache.
Thm_C28_AddSliceToListAppendsOne ==
  lastSliceOp.op = "addSliceToList"
    => /\ docSlices = lastSliceOp.before \o lastSliceOp.candidates
       /\ Len(lastSliceOp.candidates) = 1
       /\ lastSliceOp.returned = docSlices

\* A slice of another document was added to a cache that held a slice
Wit_C28_ForeignSliceAppended ==
  /\ lastSliceOp.op = "addSliceToList"
  /\ lastSliceOp.before # <<>>
  /\ lastSliceOp.candidates[1].source # docObjectId
  /\ docSlices[Len(docSlices)] = lastSliceOp.candidates[1]

\* retrieveSlices resolved with a list for a plugin whose cache was empty
Loaded ==
  /\ lastCall.op = "getDocSlices"
  /\ lastCall.stage = "retrieveSlices"
  /\ lastCall.settled = "resolved"
  /\ lastCall.dispatches = 1
  /\ lastCall.cacheBefore = <<>>

\* Every node whose objectId is the from of a cached slice has isSlice, and
\* every such paragraph has a cluster with the slice glyph
SlicesShown ==
  \A i \in 1..Len(doc) :
     (IsOpen(doc[i]) /\ \E j \in 1..Len(docSlices) : docSlices[j].from = doc[i].objectId)
       => /\ doc[i].isDeco.isSlice = "true"
          /\ doc[i].type = "paragraph"
               => \E c \in DecosOf("cluster", i) :
                     \E g \in 1..Len(decorations[c].glyphs) : decorations[c].glyphs[g] = "slice"

\* The cache holds the fetched slices of this document and no other
FetchedCached == docSlices = SelectSeq(lastCall.fetched, LAMBDA slice : slice.source = docObjectId)

\* C29: when, on document load, retrieveSlices resolves, the cache holds
\* exactly the fetched slices whose source is the document's objectId, and
\* eventually every node whose objectId is the from of one of them has
\* isSlice and every such paragraph shows a cluster with the slice glyph.
Cex_C29_LoadedSlicesShown ==
  /\ [](Loaded => FetchedCached)
  /\ Loaded ~> SlicesShown

Thm_C31_ManagersIndependent ==
  /\ docSlices = <<>> /\ otherSlices = <<>>
  /\ [][ /\ lastSliceOp'.manager = "other" => docSlices' = docSlices
         /\ lastSliceOp'.manager = "plugin" => otherSlices' = otherSlices ]_vars

\* Both managers hold slices, and not the same ones
Wit_C31_TwoCachesDiffer ==
  /\ docSlices # <<>>
  /\ otherSlices # <<>>
  /\ docSlices # otherSlices
  /\ lastSliceOp.manager = "other"

\* A paste action ended in the last step
PasteEnded ==
  \/ lastPaste.outcome \in {"dispatched", "readFailed"}
  \/ lastCall.op \in {"pasteAsReference", "pasteAsPlainText"} /\ lastCall.outcome \in {"returned", "rejected", "threw"}

\* C32: when pasteFromClipboard, pasteAsReference or pasteAsPlainText ends,
\* on whatever path, no popup is open and plugin._popUpHandle is null.
Cex_C32_PasteLeavesNoPopUp ==
  PasteEnded => popUps = 0 /\ popUpHandle = "null"

\* C33: a copy handler called on a non-empty selection ends with the popup
\* the handle referred to closed and plugin._popUpHandle null, whether the
\* clipboard write succeeds or not; called on an empty selection it leaves
\* the popup as it is, neither updated nor closed.
Thm_C33_CopyClosesUnlessEmpty ==
  [][ lastCopy'.call \in {"rich", "plain"}
        => IF lastCopy'.empty
           THEN UNCHANGED <<popUpHandle, popUps, probes>> /\ ~lastCopy'.updated
           ELSE /\ popUpHandle' = "null"
                /\ popUps' = IF popUpHandle = "open" THEN popUps - 1 ELSE popUps
                /\ probes' = probes ]_vars

\* copySelectionPlain was called on a selected text with the menu open, the
\* write was rejected and the popup is closed
Wit_C33_ClosedThoughWriteFailed ==
  /\ lastCopy.call = "plain"
  /\ ~lastCopy.empty
  /\ lastCopy.handle = "open"
  /\ clipboard = lastCopy.before
  /\ clipboard # TextBetween(SubSeq(doc, sel.from + 1, sel.to))
  /\ popUps = 0
  /\ popUpHandle = "null"

\* C34: a click on the document closes the popup and clears
\* plugin._popUpHandle if and only if a popup is open and the target is
\* inside no .context-menu and no .float-icon element; a click inside one
\* of them, and a click with no popup open, change nothing.
Thm_C34_ClickOutsideCloses ==
  [][ lastCall'.op = "outsideClick"
        => /\ UNCHANGED <<doc, sel, clipboard, pending, docSlices>>
           /\ IF lastCall'.target = "outside" /\ popUpHandle = "open"
              THEN popUpHandle' = "null" /\ popUps' = popUps - 1 /\ probes' = probes
              ELSE UNCHANGED <<popUpHandle, popUps, probes>> ]_vars

\* A click on a float icon with the menu open: the popup stays
Wit_C34_ClickOnIconKeepsPopUp ==
  /\ lastCall.op = "outsideClick"
  /\ lastCall.target = "float-icon"
  /\ lastCall.outcome = "returned"
  /\ popUpHandle = "open"
  /\ popUps = 1

\* C35: when createNewSlice runs changeAttribute with the selection's start
\* in a paragraph or heading that is a child of the document, that node
\* gets isDeco.isSlice = true and keeps its type, objectId and other isDeco
\* flags, every other token of the document stays, and exactly one
\* transaction is dispatched.
Cex_C35_FlagsTopLevelNode ==
  [][ \A i \in {BlockStart(doc, sel.from)} :
        (/\ lastCall'.op = "createNewSlice"
         /\ lastCall'.stage = "createSlice"
         /\ lastCall'.settled = "resolved"
         /\ doc[i].type \in TextBlockTypes)
          => /\ lastCall'.dispatches = 1
             /\ doc' = [doc EXCEPT ![i] = [@ EXCEPT !.isDeco = [@ EXCEPT !.present = TRUE, !.isSlice = "true"]]] ]_vars

\* C36: when the createSlice of createNewSlice resolves, the cache gets
\* exactly one more slice, at its end, and that slice is the value the
\* remote resolved with, not the slice object createNewSlice built; the
\* push comes before changeAttribute's dispatch, so the slice is in the
\* cache in every state in which the dispatch has run, whether the
\* transaction was applied or the dispatch threw.
Thm_C36_RemoteSliceCachedFirst ==
  [][ (/\ lastCall'.op = "createNewSlice"
       /\ lastCall'.stage = "createSlice"
       /\ lastCall'.settled = "resolved")
        => /\ lastCall'.val \in CreatedSlices(calls["createNewSlice"].arg)
           /\ docSlices' = Append(docSlices, CachedSlice(lastCall'.val))
           /\ lastCall'.dispatches = 1
           /\ lastApply'.prev = decorations ]_vars

\* The remote resolved with a slice of another id than the one handed to
\* it, that slice is the one cached, and the dispatch after it threw
Wit_C36_RewrittenIdCachedDispatchThrew ==
  /\ lastCall.op = "createNewSlice"
  /\ lastCall.stage = "createSlice"
  /\ lastCall.settled = "resolved"
  /\ lastCall.val = RemoteSlice
  /\ CachedSlice(lastCall.val) # CachedSlice(lastCall.arg)
  /\ docSlices = Append(lastCall.cacheBefore, CachedSlice(RemoteSlice))
  /\ lastApply.outcome = "threw"
  /\ lastCall.reported

\* C37: a transaction with the forceRescan meta and docChanged false makes
\* no rescan: apply returns the prior set remapped (through the empty
\* mapping, so the prior set), as for a transaction without the meta.
Cex_C37_ForceRescanWithoutChange ==
  (Applied /\ ~lastApply.docChanged /\ lastApply.forceRescan = "true") =>
     (lastApply.outcome = "mapped" /\ decorations = lastApply.prev)

\* C38: whenever openFloatingMenu has mounted the popup with
\* pasteAsReferenceEnabled true, the text on the clipboard, which
\* pasteAsReference would read if the item were chosen now, is JSON of an
\* object that carries a sliceModel.
Cex_C38_EnabledOnlyWithSliceModel ==
  (/\ lastCall.op = "clipboardHasProseMirrorData"
   /\ lastCall.val = JBool(TRUE)
   /\ popUpHandle = "open")
    => ~Falsy(SliceModelOf(clipboard))

====
